---- MODULE Spec2Model ----
(***************************************************************************)
(* Lavio AI assistant: intent classification (detectActionIntent of the    *)
(* background service worker), element catalog and local match score       *)
(* (ElementDetector), action execution (ActionExecutor) and page           *)
(* customisation (PageManipulator).                                        *)
(*                                                                         *)
(* Numbers that the code writes as fractions (confidence 0.3, 0.7, 0.8)    *)
(* are kept in hundredths: 30, 70, 80.  The match score, which the code    *)
(* accumulates and compares, is computed in double precision.              *)
(***************************************************************************)
EXTENDS Integers, Sequences, FiniteSets, TLC

VARIABLES
    \* ---- detectActionIntent (background service worker)
    pc,            \* position of the one detectActionIntent call
    userInput,     \* the utterance passed to detectActionIntent
    reply,         \* what aiSession.prompt produced (text or rejection)
    intent,        \* the Intent returned by detectActionIntent
    path,          \* which return statement produced the Intent
    \* ---- the page
    dom,           \* the document: sequence of nodes in document order
    \* ---- ElementDetector
    detectedElements,  \* this.detectedElements
    \* ---- ActionExecutor
    exec,          \* the execute* call suspended in sleep(), or NoCall
    lastAction,    \* this.lastAction
    highlightedElement,  \* this.highlightedElement
    timers,        \* pending auto-removal timers of highlightElement
    effects,       \* what the last execute* call did to the page, in order
    result,        \* the value the last executor operation returned
    \* ---- ElementDetector.findElementByDescription
    query,         \* the description of the last findElementByDescription call
    match,         \* the catalog entry it returned, or NoMatch for null
    \* ---- the window
    scrollPos,     \* window.scrollX and window.scrollY
    arg,           \* the direction or action of the last executeScroll / executeNavigate
    \* ---- PageManipulator
    page,                 \* the elements of the manipulated page
    customStyles,         \* the text of this.customStyleElement
    activeManipulations,  \* this.activeManipulations
    hiddenElements,       \* this.hiddenElements
    isDarkModeEnabled,    \* this.isDarkModeEnabled
    textSizeMultiplier,   \* this.textSizeMultiplier, in hundredths
    zoom,                 \* document.body.style.zoom
    \* ---- findBestElementMatch (background service worker)
    matchPc,       \* position of the one findBestElementMatch call
    elements,      \* message.elements: the catalog entries sent along
    matchReply,    \* what aiSession.prompt produced (text or rejection)
    matchResult,   \* the value findBestElementMatch returned
    \* ---- the AI session of the background service worker
    aiSession,     \* this.aiSession: 0 for null, else a position in sessions
    sessions,      \* every session LanguageModel.create has handed out and
                   \* nobody destroyed, in order of creation
    handlers,      \* the handleMessage calls in progress
    \* ---- bookkeeping
    lastOp         \* the operation that produced the current state

classifierVars == <<pc, userInput, reply, intent, path>>
executorVars == <<exec, lastAction, highlightedElement, timers, effects, result>>
resolverVars == <<query, match>>
windowVars == <<scrollPos, arg>>
matcherVars == <<matchPc, elements, matchReply, matchResult>>
sessionVars == <<aiSession, sessions, handlers>>
manipulatorVars == <<page, customStyles, activeManipulations, hiddenElements,
                     isDarkModeEnabled, textSizeMultiplier, zoom>>
\* what the operations of the PageManipulator leave alone
otherVars == <<pc, userInput, reply, intent, path, dom, detectedElements,
               exec, lastAction, highlightedElement, timers, effects,
               query, match, scrollPos, arg, matchPc, elements, matchReply,
               matchResult, aiSession, sessions, handlers>>
vars == <<pc, userInput, reply, intent, path, dom, detectedElements,
          exec, lastAction, highlightedElement, timers, effects, result,
          query, match, scrollPos, arg, page, customStyles, activeManipulations,
          hiddenElements, isDarkModeEnabled, textSizeMultiplier, zoom,
          matchPc, elements, matchReply, matchResult, aiSession, sessions,
          handlers, lastOp>>

-----------------------------------------------------------------------------
(* Bounds *)

\* number of fragments an utterance is built from
MaxFrags == 2

-----------------------------------------------------------------------------
(* JavaScript values: every value carries its type tag, so that typeof,    *)
(* truthiness and Math.max can be computed as the engine computes them.    *)

JNull == [tag |-> "null", num |-> 0, str |-> ""]
JUndefined == [tag |-> "undefined", num |-> 0, str |-> ""]
JNaN == [tag |-> "nan", num |-> 0, str |-> ""]
JBool(b) == [tag |-> "boolean", num |-> IF b THEN 1 ELSE 0, str |-> ""]
JNum(n) == [tag |-> "number", num |-> n, str |-> ""]
JStr(s) == [tag |-> "string", num |-> 0, str |-> s]

\* typeof v === "boolean"
IsBoolean(v) == v.tag = "boolean"

\* ToBoolean(v): the truthiness used by if (...) and && and !
Truthy(v) ==
    CASE v.tag = "boolean" -> v.num = 1
      [] v.tag = "number" -> v.num # 0
      [] v.tag = "string" -> v.str # ""
      [] OTHER -> FALSE

\* v != null (neither null nor undefined)
NonNull(v) == v.tag \notin {"null", "undefined"}

\* Math.max(v, n) for a number literal n: ToNumber(v) first
\* (undefined -> NaN, null -> 0, true -> 1, false -> 0, "" -> 0,
\*  non numeric string -> NaN); NaN is contagious.
MathMax(v, n) ==
    CASE v.tag = "number" -> JNum(IF v.num > n THEN v.num ELSE n)
      [] v.tag = "null" -> JNum(IF 0 > n THEN 0 ELSE n)
      [] v.tag = "boolean" -> JNum(IF v.num * 100 > n THEN v.num * 100 ELSE n)
      [] v.tag = "string" /\ v.str = "" -> JNum(IF 0 > n THEN 0 ELSE n)
      [] OTHER -> JNaN

-----------------------------------------------------------------------------
(* Strings *)

UpperCase == "ABCDEFGHIJKLMNOPQRSTUVWXYZ"
LowerCase == "abcdefghijklmnopqrstuvwxyz"

\* String.prototype.toLowerCase on one character
LowerChar(c) ==
    IF \E i \in 1..26 : SubSeq(UpperCase, i, i) = c
    THEN LET i == CHOOSE j \in 1..26 : SubSeq(UpperCase, j, j) = c
         IN  SubSeq(LowerCase, i, i)
    ELSE c

RECURSIVE toLowerCase(_)
toLowerCase(s) ==
    IF Len(s) = 0 THEN ""
    ELSE LowerChar(SubSeq(s, 1, 1)) \o toLowerCase(SubSeq(s, 2, Len(s)))

\* String.prototype.includes: k occurs in s as a substring
includes(s, k) ==
    \E i \in 1..(Len(s) - Len(k) + 1) : SubSeq(s, i, i + Len(k) - 1) = k

\* keywords.some((keyword) => lowerInput.includes(keyword))
someIncluded(keywords, lowerInput) ==
    \E keyword \in keywords : includes(lowerInput, keyword)

-----------------------------------------------------------------------------
(* Keyword tables of detectActionIntent *)

\* override stage (response parsed, isAction false)
OverrideInformationKeywords ==
    {"tell me", "what is", "what are", "what does", "how does", "why does",
     "explain", "describe", "summarize", "which", "who", "when", "where",
     "about this page", "about the page", "most views", "most likes",
     "most popular", "find the", "show me the"}

OverrideActionKeywords ==
    {"click on", "press on", "tap on", "scroll", "type", "enter", "focus on",
     "go back", "go forward", "make text", "make the text", "text larger",
     "text smaller", "text bigger", "text size", "font size", "bigger text",
     "smaller text", "increase text", "decrease text", "reduce text",
     "reset text", "normal text", "default text", "dark mode", "light mode",
     "enable dark", "disable dark", "hide ads", "hide sidebar", "show ads",
     "change background", "change color", "zoom in", "zoom out", "reset page",
     "reader mode", "focus mode", "can you make", "can you change",
     "can you hide"}

\* fallback stage (response not parsed)
FallbackInformationKeywords ==
    {"tell me", "what is", "what are", "what does", "how does", "why does",
     "explain", "describe", "summarize", "which", "who", "when", "where",
     "about", "most views", "most likes", "most popular", "find the",
     "show me the"}

FallbackActionKeywords ==
    {"click on", "press on", "tap on", "scroll", "go back", "go forward",
     "navigate", "refresh", "reload", "type in", "type into", "focus on",
     "make text", "make the text", "text larger", "text smaller",
     "text bigger", "text size", "font size", "bigger text", "smaller text",
     "increase text", "decrease text", "reduce text", "reset text",
     "normal text", "default text", "dark mode", "light mode", "hide ads",
     "change background", "change color", "zoom in", "zoom out",
     "can you make", "can you change", "can you hide"}

-----------------------------------------------------------------------------
(* Utterances: up to MaxFrags fragments joined by single blanks.  The      *)
(* fragments cover keywords of both stages, keywords only one stage knows  *)
(* ("type", "enter" / "about", "refresh"), capital letters, a keyword that *)
(* occurs inside a longer word ("whole" includes "who") and neutral text.  *)

Fragments ==
    {"tell me", "Which", "about", "click on", "Scroll", "type", "refresh",
     "go back", "whole", "hello"}

RECURSIVE UtterancesOfLen(_)
UtterancesOfLen(n) ==
    IF n = 1 THEN Fragments
    ELSE {u \o " " \o f : u \in UtterancesOfLen(n - 1), f \in Fragments}

Utterances == UNION {UtterancesOfLen(n) : n \in 1..MaxFrags}

-----------------------------------------------------------------------------
(* The Intent object and the text the model may answer with *)

Intent(isAction, confidence, actionType, targetDescription, additionalData, reasoning) ==
    [isAction |-> isAction, confidence |-> confidence,
     actionType |-> actionType, targetDescription |-> targetDescription,
     additionalData |-> additionalData, reasoning |-> reasoning]

\* the object {} : every property reads as undefined
EmptyObject ==
    Intent(JUndefined, JUndefined, JUndefined, JUndefined, JUndefined, JUndefined)

\* objects the model may put in its answer; a key may be missing
\* (undefined), and nothing forces the values into the documented types
ModelObjects ==
    {Intent(a, c, t, d, JNull, JStr("model"))
        : a \in {JBool(TRUE), JBool(FALSE), JStr("true"), JUndefined},
          c \in {JNum(50), JNum(95), JNum(150), JUndefined},
          t \in {JNull, JUndefined, JStr(""), JStr("click")},
          d \in {JNull}}

\* A response text is a sequence of segments:
\*   prose       words without braces
\*   fence_json  the opening fence ```json
\*   fence       a bare fence ```
\*   lbrace      the character {        rbrace   the character }
\*   obj         the JSON text of an object (field obj)
\*   badobj      text from { to } that is not JSON (e.g. {isAction: yes,})
Seg(kind) == [kind |-> kind, obj |-> EmptyObject]
ObjSeg(o) == [kind |-> "obj", obj |-> o]

ResponseShapes(o) ==
    { <<ObjSeg(o)>>,
      <<Seg("fence_json"), ObjSeg(o), Seg("fence")>>,
      <<Seg("prose"), ObjSeg(o)>>,
      <<ObjSeg(o), Seg("prose")>>,
      <<Seg("lbrace"), Seg("prose"), Seg("rbrace"), ObjSeg(o)>> }

UnparseableResponses ==
    { <<>>, <<Seg("prose")>>, <<Seg("badobj")>>, <<Seg("lbrace"), Seg("prose")>>,
      <<Seg("lbrace"), Seg("rbrace")>> }

ResponseTexts ==
    UNION {ResponseShapes(o) : o \in ModelObjects} \cup UnparseableResponses

ErrorMessages == {"The model crashed", "Cannot read properties of null"}

TextReply(segs) == [kind |-> "text", segs |-> segs, message |-> ""]
ErrorReply(m) == [kind |-> "error", segs |-> <<>>, message |-> m]
NoReply == [kind |-> "none", segs |-> <<>>, message |-> ""]

-----------------------------------------------------------------------------
(* Parse and repair (part_001:1149-1182) *)

\* .replace(/```json\s*/g, "").replace(/```\s*$/g, "")
stripFences(segs) ==
    LET NotJsonFence(sg) == sg.kind # "fence_json"
        noJson == SelectSeq(segs, NotJsonFence)
    IN  IF Len(noJson) > 0 /\ noJson[Len(noJson)].kind = "fence"
        THEN SubSeq(noJson, 1, Len(noJson) - 1)
        ELSE noJson

\* cleanedResponse.match(/\{[\s\S]*\}/): greedy, from the first { to the
\* last } that follows it; <<>> when there is no match
jsonMatch(segs) ==
    LET opens == {i \in 1..Len(segs) : segs[i].kind \in {"lbrace", "obj", "badobj"}}
    IN  IF opens = {} THEN <<>>
        ELSE LET first == CHOOSE i \in opens : \A j \in opens : i <= j
                 closes == {j \in first..Len(segs) :
                              \/ segs[j].kind \in {"obj", "badobj"}
                              \/ segs[j].kind = "rbrace" /\ j > first}
             IN  IF closes = {} THEN <<>>
                 ELSE LET last == CHOOSE j \in closes : \A k \in closes : k <= j
                      IN  SubSeq(segs, first, last)

\* JSON.parse(jsonStr): the span must be the text of exactly one object
JSONparse(span) ==
    IF Len(span) = 1 /\ span[1].kind = "obj"
        THEN [ok |-> TRUE, obj |-> span[1].obj]
    ELSE IF Len(span) = 2 /\ span[1].kind = "lbrace" /\ span[2].kind = "rbrace"
        THEN [ok |-> TRUE, obj |-> EmptyObject]
    ELSE [ok |-> FALSE, obj |-> EmptyObject]

\* lines 1150-1182: ok iff no throw before "Parsed intent"
parseIntent_NoValidation(segs) ==
    LET span == jsonMatch(stripFences(segs))
        parsed == JSONparse(span)
    IN  IF span = <<>> THEN [ok |-> FALSE, obj |-> EmptyObject]
        ELSE parsed

parseIntent(segs) ==
    LET span == jsonMatch(stripFences(segs))
        parsed == JSONparse(span)
    IN  IF span = <<>> THEN [ok |-> FALSE, obj |-> EmptyObject]
        ELSE IF ~parsed.ok THEN parsed
        ELSE IF ~IsBoolean(parsed.obj.isAction) THEN [ok |-> FALSE, obj |-> EmptyObject]
        ELSE parsed

-----------------------------------------------------------------------------
(* Consistency repair, heuristic override, fallback and failure default   *)
(* (part_001:1186-1413)                                                    *)

\* lines 1188-1195: if (intent.actionType && !intent.isAction) {...}
repairIntent_NoRepair(o) == o

repairIntent(o) ==
    IF Truthy(o.actionType) /\ ~Truthy(o.isAction)
    THEN [o EXCEPT !.isAction = JBool(TRUE),
                   !.confidence = MathMax(o.confidence, 80),
                   !.reasoning = JStr("Fixed: actionType detected")]
    ELSE o

\* lines 1203-1227, override stage
overrideIsInformationRequest(lowerInput) ==
    someIncluded(OverrideInformationKeywords, lowerInput)

\* lines 1238-1283, override stage
hasStrongActionKeyword(lowerInput) ==
    someIncluded(OverrideActionKeywords, lowerInput)

\* lines 1199-1299: the override stage and the two returns of the try block
overrideIntent_ActionFirst(input, o) ==
    IF ~Truthy(o.isAction) /\ hasStrongActionKeyword(toLowerCase(input))
    THEN [intent |-> [o EXCEPT
              !.isAction = JBool(TRUE),
              !.confidence = MathMax(o.confidence, 70),
              !.reasoning = JStr("Overridden - detected as action via heuristics")],
          path |-> "parsed"]
    ELSE [intent |-> o, path |-> "parsed"]

overrideIntent_NoOverride(input, o) ==
    IF ~Truthy(o.isAction) /\ overrideIsInformationRequest(toLowerCase(input))
    THEN [intent |-> o, path |-> "information"]
    ELSE [intent |-> o, path |-> "parsed"]

overrideIntent_Unguarded(input, o) ==
    LET lowerInput == toLowerCase(input)
    IN  IF overrideIsInformationRequest(lowerInput)
        THEN [intent |-> o, path |-> "information"]
        ELSE IF hasStrongActionKeyword(lowerInput)
        THEN [intent |-> [o EXCEPT
                  !.isAction = JBool(TRUE),
                  !.confidence = MathMax(o.confidence, 70),
                  !.reasoning = JStr("Overridden - detected as action via heuristics")],
              path |-> "parsed"]
        ELSE [intent |-> o, path |-> "parsed"]

overrideIntent(input, o) ==
    IF ~Truthy(o.isAction)
    THEN LET lowerInput == toLowerCase(input)
         IN  IF overrideIsInformationRequest(lowerInput)
             THEN [intent |-> o, path |-> "information"]
             ELSE IF hasStrongActionKeyword(lowerInput)
             THEN [intent |-> [o EXCEPT
                       !.isAction = JBool(TRUE),
                       !.confidence = MathMax(o.confidence, 70),
                       !.reasoning = JStr("Overridden - detected as action via heuristics")],
                   path |-> "parsed"]
             ELSE [intent |-> o, path |-> "parsed"]
    ELSE [intent |-> o, path |-> "parsed"]

\* lines 1308-1331, fallback stage
fallbackIsInformationRequest(lowerInput) ==
    someIncluded(FallbackInformationKeywords, lowerInput)

\* lines 1334-1376, fallback stage
hasActionKeyword(lowerInput) ==
    someIncluded(FallbackActionKeywords, lowerInput)

\* line 1380
isLikelyAction_ActionOnly(lowerInput) == hasActionKeyword(lowerInput)

isLikelyAction(lowerInput) ==
    hasActionKeyword(lowerInput) /\ ~fallbackIsInformationRequest(lowerInput)

\* lines 1300-1401: catch (parseError)
fallbackIntent_AsQuestion(input) ==
    [intent |-> Intent(JBool(FALSE), JNum(50), JNull, JNull, JNull,
                       JStr("Failed to parse intent, treating as question")),
     path |-> "fallback"]

fallbackIntent(input) ==
    [intent |-> Intent(JBool(isLikelyAction(toLowerCase(input))), JNum(30),
                       JNull, JNull, JNull,
                       JStr("Failed to parse AI response, using heuristics")),
     path |-> "fallback"]

\* lines 1402-1413: catch (error)
failureIntent_Heuristic(input, message) ==
    [intent |-> Intent(JBool(isLikelyAction(toLowerCase(input))), JNum(0),
                       JNull, JNull, JNull, JStr("Error: " \o message)),
     path |-> "failure"]

failureIntent(input, message) ==
    [intent |-> Intent(JBool(FALSE), JNum(0), JNull, JNull, JNull,
                       JStr("Error: " \o message)),
     path |-> "failure"]

\* lines 1142-1413: everything after "await this.aiSession.prompt(prompt)"
detectActionIntent(input, r) ==
    IF r.kind = "error" THEN failureIntent(input, r.message)
    ELSE LET parsed == parseIntent(r.segs)
         IN  IF parsed.ok THEN overrideIntent(input, repairIntent(parsed.obj))
             ELSE fallbackIntent(input)

-----------------------------------------------------------------------------
(* detectActionIntent as a process: the call, the await of the model, the  *)
(* return to handleMessage (part_001:537-549, 1023-1414)                   *)

NoIntent == [intent |-> EmptyObject, path |-> "none"]

\* handleMessage DETECT_INTENT calls detectActionIntent(message.text, ...);
\* the call runs up to "await this.aiSession.prompt(prompt)"
DetectIntent ==
    /\ pc = "idle"
    /\ \E input \in Utterances : userInput' = input
    /\ pc' = "prompting"
    /\ reply' = NoReply
    /\ intent' = NoIntent.intent
    /\ path' = NoIntent.path
    /\ UNCHANGED <<matcherVars, sessionVars, manipulatorVars, windowVars, resolverVars, dom, detectedElements, executorVars, lastOp>>

\* the model answers with some text; the rest of the function runs
PromptResolves ==
    /\ pc = "prompting"
    /\ \E segs \in ResponseTexts :
          LET out == detectActionIntent(userInput, TextReply(segs))
          IN  /\ reply' = TextReply(segs)
              /\ intent' = out.intent
              /\ path' = out.path
    /\ pc' = "returned"
    /\ UNCHANGED <<matcherVars, sessionVars, manipulatorVars, windowVars, resolverVars, userInput, dom, detectedElements, executorVars, lastOp>>

\* the model call throws or rejects; the outer catch runs
PromptRejects ==
    /\ pc = "prompting"
    /\ \E message \in ErrorMessages :
          LET out == detectActionIntent(userInput, ErrorReply(message))
          IN  /\ reply' = ErrorReply(message)
              /\ intent' = out.intent
              /\ path' = out.path
    /\ pc' = "returned"
    /\ UNCHANGED <<matcherVars, sessionVars, manipulatorVars, windowVars, resolverVars, userInput, dom, detectedElements, executorVars, lastOp>>

\* handleMessage: sendResponse({ success: true, intent })
SendIntentResponse ==
    /\ pc = "returned"
    /\ pc' = "idle"
    /\ userInput' = ""
    /\ reply' = NoReply
    /\ intent' = NoIntent.intent
    /\ path' = NoIntent.path
    /\ UNCHANGED <<matcherVars, sessionVars, manipulatorVars, windowVars, resolverVars, dom, detectedElements, executorVars, lastOp>>

ClassifierInit ==
    /\ pc = "idle"
    /\ userInput = ""
    /\ reply = NoReply
    /\ intent = NoIntent.intent
    /\ path = NoIntent.path

ClassifierNext ==
    \/ DetectIntent
    \/ PromptResolves
    \/ PromptRejects
    \/ SendIntentResponse

-----------------------------------------------------------------------------
(* Properties of detectActionIntent *)

Returned == pc = "returned"
ReplyIsText == reply.kind = "text"
ReplyParsed == ReplyIsText /\ parseIntent(reply.segs).ok
ReplyUnparseable == ReplyIsText /\ ~parseIntent(reply.segs).ok
ReplyFailed == reply.kind = "error"
parsedObject == parseIntent(reply.segs).obj
lowerUserInput == toLowerCase(userInput)

\* C1 as claimed: for an Intent returned from a parsed response, a
\* non-null actionType implies isAction == true.
C1_NonNullActionTypeImpliesAction ==
    (Returned /\ ReplyParsed /\ NonNull(intent.actionType))
        => intent.isAction = JBool(TRUE)

\* C1 amended: for an Intent returned from a parsed response, a truthy
\* actionType (a non-empty string) implies isAction == true; an empty
\* string is left as the model gave it.
C1_TruthyActionTypeImpliesAction ==
    (Returned /\ ReplyParsed /\ Truthy(intent.actionType))
        => intent.isAction = JBool(TRUE)

\* the repair step acted: the model said isAction=false with an actionType
C1_Witness ==
    /\ Returned /\ ReplyParsed
    /\ parsedObject.isAction = JBool(FALSE)
    /\ parsedObject.actionType = JStr("click")
    /\ intent.isAction = JBool(TRUE)
    /\ intent.reasoning = JStr("Fixed: actionType detected")

\* C2 as claimed: an utterance with an information keyword is returned
\* with isAction=false whatever the model answered.
C2_InformationAlwaysWins ==
    (Returned /\ overrideIsInformationRequest(lowerUserInput))
        => intent.isAction = JBool(FALSE)

\* C2 amended: for an utterance with an information keyword the result is
\* isAction=true exactly when the response parsed and carried isAction=true
\* or a truthy actionType (the model's action verdict is never overridden);
\* in every other case it is isAction=false.
C2_InformationWinsUnlessModelSaysAction ==
    (Returned /\ overrideIsInformationRequest(lowerUserInput))
        => /\ IsBoolean(intent.isAction)
           /\ Truthy(intent.isAction) <=>
                 (ReplyParsed /\ (Truthy(parsedObject.isAction)
                                    \/ Truthy(parsedObject.actionType)))

\* information keyword and action keyword together, model says question
C2_Witness ==
    /\ Returned /\ ReplyParsed
    /\ overrideIsInformationRequest(lowerUserInput)
    /\ hasStrongActionKeyword(lowerUserInput)
    /\ parsedObject.isAction = JBool(FALSE)
    /\ ~Truthy(parsedObject.actionType)
    /\ path = "information"
    /\ intent.isAction = JBool(FALSE)

\* C3: with an information keyword in the utterance, the fallback path
\* (unparseable response) and the override path (parsed isAction=false, no
\* actionType) both return isAction=false, also when an action keyword is
\* present.
C3_InformationPrecedence ==
    /\ (Returned /\ ReplyUnparseable /\ fallbackIsInformationRequest(lowerUserInput))
          => intent.isAction = JBool(FALSE)
    /\ (Returned /\ ReplyParsed /\ parsedObject.isAction = JBool(FALSE)
          /\ ~Truthy(parsedObject.actionType)
          /\ overrideIsInformationRequest(lowerUserInput))
          => intent.isAction = JBool(FALSE)

\* unparseable response, utterance with both kinds of keyword
C3_Witness ==
    /\ Returned /\ ReplyUnparseable
    /\ fallbackIsInformationRequest(lowerUserInput)
    /\ hasActionKeyword(lowerUserInput)
    /\ path = "fallback"
    /\ intent.isAction = JBool(FALSE)

\* an action keyword both stages know, no information keyword of either
ActionKeywordOnly ==
    /\ hasStrongActionKeyword(lowerUserInput)
    /\ hasActionKeyword(lowerUserInput)
    /\ ~overrideIsInformationRequest(lowerUserInput)
    /\ ~fallbackIsInformationRequest(lowerUserInput)

C5_FallbackIntent ==
    (Returned /\ ReplyUnparseable)
        => /\ intent.confidence = JNum(30)
           /\ intent.actionType = JNull
           /\ intent.targetDescription = JNull
           /\ intent.additionalData = JNull
           /\ intent.isAction =
                 JBool(hasActionKeyword(lowerUserInput)
                         /\ ~fallbackIsInformationRequest(lowerUserInput))

\* "scroll ..." with an unparseable response: isAction=true, confidence 0.3
C5_Witness ==
    /\ Returned /\ ReplyUnparseable
    /\ includes(lowerUserInput, "scroll")
    /\ intent.isAction = JBool(TRUE)
    /\ intent.confidence = JNum(30)

\* C6: a failed model call yields isAction=false, confidence 0, null action
\* slots and the error text in reasoning, whatever the utterance.
C6_FailureIntent ==
    (Returned /\ ReplyFailed)
        => intent = Intent(JBool(FALSE), JNum(0), JNull, JNull, JNull,
                           JStr("Error: " \o reply.message))

\* the model call failed for an utterance with an action keyword
C6_Witness ==
    /\ Returned /\ ReplyFailed
    /\ ActionKeywordOnly
    /\ path = "failure"
    /\ intent.isAction = JBool(FALSE)

\* the positions of the JSON objects in the model's response
objectsOfReply == {i \in 1..Len(reply.segs) : reply.segs[i].kind = "obj"}

\* the response holds exactly one well-formed object, with a boolean
\* isAction, and around it only fences and prose, prose with brace
\* characters included
WrapsOneIntent ==
    /\ ReplyIsText
    /\ Cardinality(objectsOfReply) = 1
    /\ \A i \in 1..Len(reply.segs) : reply.segs[i].kind # "badobj"
    /\ \A i \in objectsOfReply : IsBoolean(reply.segs[i].obj.isAction)

\* what detectActionIntent returns for the object of the response alone
bareResult ==
    LET i == CHOOSE j \in objectsOfReply : TRUE
    IN  detectActionIntent(userInput, TextReply(<<reply.segs[i]>>))

\* C20: when the response holds exactly one well-formed Intent object with
\* a boolean isAction, wrapped in fences or surrounded by prose (prose with
\* brace characters included), detectActionIntent parses it instead of
\* using the fallback heuristic, and returns what it returns for the bare
\* object.
C20_WrappedObjectParsed ==
    (Returned /\ WrapsOneIntent) =>
        /\ path # "fallback"
        /\ intent = bareResult.intent
        /\ path = bareResult.path

\* C21: when the parsed response has isAction=true, neither the repair nor
\* the override touches it: the Intent returned is the parsed object, field
\* by field, and it leaves by the last return of the try block, whatever
\* keywords the utterance contains.
C21_ActionVerdictKept ==
    (Returned /\ ReplyParsed /\ parsedObject.isAction = JBool(TRUE))
        => /\ intent = parsedObject
           /\ path = "parsed"

\* the model said isAction=true for an utterance with an information
\* keyword and an action keyword of the override stage
C21_Witness ==
    /\ Returned /\ ReplyParsed
    /\ parsedObject.isAction = JBool(TRUE)
    /\ overrideIsInformationRequest(lowerUserInput)
    /\ hasStrongActionKeyword(lowerUserInput)
    /\ intent.isAction = JBool(TRUE)
    /\ intent.reasoning = JStr("model")

\* the three ways the parse stage fails, each read off the response
replySpan == jsonMatch(stripFences(reply.segs))
NoJsonSpan == replySpan = <<>>
JsonParseError == ~NoJsonSpan /\ ~JSONparse(replySpan).ok
IsActionNotBoolean ==
    /\ ~NoJsonSpan /\ JSONparse(replySpan).ok
    /\ ~IsBoolean(JSONparse(replySpan).obj.isAction)

\* the Intent is the object of the response, possibly repaired, possibly
\* overridden: the action slots are the object's own
FromParsedObject ==
    LET o == JSONparse(replySpan).obj
    IN  /\ intent.actionType = o.actionType
        /\ intent.targetDescription = o.targetDescription
        /\ intent.additionalData = o.additionalData
        /\ \/ intent = o
           \/ /\ intent.isAction = JBool(TRUE)
              /\ o.isAction = JBool(FALSE)
              /\ intent.reasoning \in
                    {JStr("Fixed: actionType detected"),
                     JStr("Overridden - detected as action via heuristics")}

\* C22: the stages run in order.  An Intent appears only when the awaited
\* model call completes; for a response text the fallback result
\* (confidence 0.3) is returned exactly when no JSON span was found, the
\* span did not parse, or isAction is not a boolean; in every other case
\* the Intent leaves by a return of the try block and is the parsed
\* object, repaired or overridden.
C22_StagesInOrder ==
    /\ []((Returned /\ ReplyIsText) =>
            /\ (path = "fallback")
                  <=> (NoJsonSpan \/ JsonParseError \/ IsActionNotBoolean)
            /\ (path # "fallback")
                  => (path \in {"parsed", "information"} /\ FromParsedObject))
    /\ [][path' # "none" => (pc = "prompting" /\ pc' = "returned")]_vars

\* a well-formed object whose isAction is the string "true": parse failure
C22_Witness ==
    /\ Returned /\ ReplyIsText
    /\ IsActionNotBoolean
    /\ path = "fallback"
    /\ intent.confidence = JNum(30)

\* a parsed response that leaves the decision to the override stage
QuestionObject == Intent(JBool(FALSE), JNum(50), JNull, JNull, JNull, JStr("model"))

\* the response left the decision to a keyword heuristic
DecidedByKeywords ==
    \/ ReplyUnparseable
    \/ /\ ReplyParsed
       /\ parsedObject.isAction = JBool(FALSE)
       /\ ~Truthy(parsedObject.actionType)

\* C23: for every utterance the isAction decision of the fallback heuristic
\* (unparseable response) equals the isAction decision of the override
\* heuristic on a parsed response with isAction=false and no actionType:
\* whichever of the two stages decided, the other would have decided alike.
C23_FallbackEqualsOverride ==
    (Returned /\ DecidedByKeywords) =>
        /\ intent.isAction = fallbackIntent(userInput).intent.isAction
        /\ intent.isAction = overrideIntent(userInput, QuestionObject).intent.isAction

\* C24: every Intent returned by detectActionIntent, whichever stage
\* produced it, has a numeric confidence between 0 and 1 (0 and 100
\* hundredths), whatever confidence the model put in its JSON or left out.
C24_ConfidenceInUnitInterval ==
    Returned =>
        /\ intent.confidence.tag = "number"
        /\ intent.confidence.num \in 0..100

-----------------------------------------------------------------------------
(* findBestElementMatch (part_001:913-1015): the model is asked for the    *)
(* index of the catalog entry that fits a description                      *)

\* elements.slice(0, 30)
TopElementsLimit == 30

\* Array.prototype.slice(0, n)
slice(array, n) == SubSeq(array, 1, IF Len(array) < n THEN Len(array) ELSE n)

\* message.elements: catalog entries, named by their position; an empty
\* catalog, short ones, and one longer than the limit
CatalogSizes == {0, 1, 2, 31}
Catalog(n) == [i \in 1..n |-> i]

MatchObject(matchIndex, confidence, reasoning) ==
    [matchIndex |-> matchIndex, confidence |-> confidence, reasoning |-> reasoning]

\* the object {} : every property reads as undefined
EmptyMatchObject == MatchObject(JUndefined, JUndefined, JUndefined)

\* objects the model may answer with: indexes are counted from 0, and
\* nothing forces the values into the types and ranges the prompt asks for
MatchObjects ==
    {MatchObject(m, c, r)
        : m \in {JNum(-1), JNum(0), JNum(1), JNum(30), JNum(-2), JStr("0"), JUndefined},
          c \in {JNum(95), JNum(0), JStr("high"), JUndefined},
          r \in {JStr("Exact match"), JUndefined}}

MatchSeg(kind) == [kind |-> kind, obj |-> EmptyMatchObject]
MatchObjSeg(o) == [kind |-> "obj", obj |-> o]

MatchResponseShapes(o) ==
    { <<MatchObjSeg(o)>>,
      <<MatchSeg("fence_json"), MatchObjSeg(o), MatchSeg("fence")>>,
      <<MatchSeg("prose"), MatchObjSeg(o)>>,
      <<MatchObjSeg(o), MatchSeg("prose")>>,
      <<MatchSeg("lbrace"), MatchSeg("prose"), MatchSeg("rbrace"), MatchObjSeg(o)>> }

MatchUnparseableResponses ==
    { <<>>, <<MatchSeg("prose")>>, <<MatchSeg("badobj")>>,
      <<MatchSeg("lbrace"), MatchSeg("prose")>>,
      <<MatchSeg("lbrace"), MatchSeg("rbrace")>> }

MatchResponseTexts ==
    UNION {MatchResponseShapes(o) : o \in MatchObjects} \cup MatchUnparseableResponses

\* typeof v === "number"
IsNumber(v) == v.tag \in {"number", "nan"}

\* JSON.parse(jsonMatch[0]): the span must be the text of exactly one object
JSONparseMatch(span) ==
    IF Len(span) = 1 /\ span[1].kind = "obj"
        THEN [ok |-> TRUE, obj |-> span[1].obj]
    ELSE IF Len(span) = 2 /\ span[1].kind = "lbrace" /\ span[2].kind = "rbrace"
        THEN [ok |-> TRUE, obj |-> EmptyMatchObject]
    ELSE [ok |-> FALSE, obj |-> EmptyMatchObject]

\* lines 966-984: ok iff no throw before "AI element match result"
parseMatch_NoValidation(segs) ==
    LET span == jsonMatch(stripFences(segs))
    IN  IF span = <<>> THEN [ok |-> FALSE, obj |-> EmptyMatchObject]
        ELSE JSONparseMatch(span)

parseMatch(segs) ==
    LET span == jsonMatch(stripFences(segs))
        parsed == JSONparseMatch(span)
    IN  IF span = <<>> THEN [ok |-> FALSE, obj |-> EmptyMatchObject]
        ELSE IF ~parsed.ok THEN parsed
        ELSE IF ~IsNumber(parsed.obj.matchIndex) \/ ~IsNumber(parsed.obj.confidence)
            THEN [ok |-> FALSE, obj |-> EmptyMatchObject]
        ELSE parsed

MatchResult(success, matchIndex, confidence, reasoning) ==
    [success |-> success, matchIndex |-> matchIndex,
     confidence |-> confidence, reasoning |-> reasoning]
NoMatchResult == MatchResult(FALSE, JUndefined, JUndefined, JUndefined)

\* lines 957-1014: everything after "await this.aiSession.prompt(prompt)";
\* the elements are used for the prompt only
findBestElementMatch(topElements, r) ==
    IF r.kind = "error"
    THEN MatchResult(FALSE, JNum(-1), JNum(0), JStr("Error: " \o r.message))
    ELSE LET parsed == parseMatch(r.segs)
         IN  IF parsed.ok
             THEN MatchResult(TRUE, parsed.obj.matchIndex, parsed.obj.confidence,
                              IF Truthy(parsed.obj.reasoning)
                              THEN parsed.obj.reasoning ELSE JStr("AI match"))
             ELSE MatchResult(FALSE, JNum(-1), JNum(0),
                              JStr("Failed to parse AI response"))

\* handleMessage FIND_ELEMENT_MATCH calls
\* findBestElementMatch(message.description, message.elements || []);
\* the call runs up to "await this.aiSession.prompt(prompt)"
FindElementMatch ==
    /\ matchPc = "idle"
    /\ \E n \in CatalogSizes : elements' = Catalog(n)
    /\ matchPc' = "prompting"
    /\ matchReply' = NoReply
    /\ matchResult' = NoMatchResult
    /\ UNCHANGED <<sessionVars, manipulatorVars, windowVars, resolverVars,
                   classifierVars, dom, detectedElements, executorVars, lastOp>>

\* the model answers with some text; the rest of the function runs
MatchPromptResolves ==
    /\ matchPc = "prompting"
    /\ \E segs \in MatchResponseTexts :
          /\ matchReply' = TextReply(segs)
          /\ matchResult' = findBestElementMatch(slice(elements, TopElementsLimit),
                                                 TextReply(segs))
    /\ matchPc' = "returned"
    /\ UNCHANGED <<elements, sessionVars, manipulatorVars, windowVars, resolverVars,
                   classifierVars, dom, detectedElements, executorVars, lastOp>>

\* the model call throws or rejects; the outer catch runs
MatchPromptRejects ==
    /\ matchPc = "prompting"
    /\ \E message \in ErrorMessages :
          /\ matchReply' = ErrorReply(message)
          /\ matchResult' = findBestElementMatch(slice(elements, TopElementsLimit),
                                                 ErrorReply(message))
    /\ matchPc' = "returned"
    /\ UNCHANGED <<elements, sessionVars, manipulatorVars, windowVars, resolverVars,
                   classifierVars, dom, detectedElements, executorVars, lastOp>>

\* handleMessage: sendResponse(matchResult)
SendMatchResponse ==
    /\ matchPc = "returned"
    /\ matchPc' = "idle"
    /\ elements' = <<>>
    /\ matchReply' = NoReply
    /\ matchResult' = NoMatchResult
    /\ UNCHANGED <<sessionVars, manipulatorVars, windowVars, resolverVars,
                   classifierVars, dom, detectedElements, executorVars, lastOp>>

MatcherIdle ==
    /\ matchPc = "idle"
    /\ elements = <<>>
    /\ matchReply = NoReply
    /\ matchResult = NoMatchResult

MatcherNext ==
    \/ FindElementMatch
    \/ MatchPromptResolves
    \/ MatchPromptRejects
    \/ SendMatchResponse

-----------------------------------------------------------------------------
(* Properties of findBestElementMatch *)

MatchReturned == matchPc = "returned"
matchSpan == jsonMatch(stripFences(matchReply.segs))

\* the response has no JSON object, does not parse, or lacks a numeric
\* matchIndex or a numeric confidence
MatchReplyUnusable ==
    /\ matchReply.kind = "text"
    /\ \/ matchSpan = <<>>
       \/ ~JSONparseMatch(matchSpan).ok
       \/ JSONparseMatch(matchSpan).obj.matchIndex.tag # "number"
       \/ JSONparseMatch(matchSpan).obj.confidence.tag # "number"

\* C25: findBestElementMatch degrades to no-match on every failure: for a
\* response without a JSON object, one that does not parse, or one without
\* a numeric matchIndex or numeric confidence, and for a model call that
\* throws, the call returns success=false, matchIndex=-1, confidence=0, and
\* for a model failure the reasoning carries the error text.
C25_DegradesToNoMatch ==
    /\ (MatchReturned /\ MatchReplyUnusable) =>
          /\ matchResult.success = FALSE
          /\ matchResult.matchIndex = JNum(-1)
          /\ matchResult.confidence = JNum(0)
    /\ (MatchReturned /\ matchReply.kind = "error") =>
          matchResult = MatchResult(FALSE, JNum(-1), JNum(0),
                                    JStr("Error: " \o matchReply.message))

\* the model named an index but wrote the confidence as a word
C25_Witness ==
    /\ MatchReturned
    /\ matchReply.kind = "text"
    /\ JSONparseMatch(matchSpan).ok
    /\ JSONparseMatch(matchSpan).obj.matchIndex = JNum(0)
    /\ JSONparseMatch(matchSpan).obj.confidence = JStr("high")
    /\ Len(elements) > 0
    /\ matchResult = MatchResult(FALSE, JNum(-1), JNum(0),
                                 JStr("Failed to parse AI response"))

\* the elements that were sent to the model
topElements == slice(elements, TopElementsLimit)

\* C29: a result with success=true carries a matchIndex that is -1 or the
\* index (counted from 0) of one of the at most 30 elements sent to the model.
C29_MatchIndexInRange ==
    (MatchReturned /\ matchResult.success) =>
        /\ matchResult.matchIndex.tag = "number"
        /\ \/ matchResult.matchIndex.num = -1
           \/ matchResult.matchIndex.num \in 0..(Len(topElements) - 1)

-----------------------------------------------------------------------------
(* The AI session (part_001:334-423, 442-565): every handleMessage that    *)
(* needs the model calls initializeAI when this.aiSession is not set.      *)
(* handleMessage is async and is started for every incoming message, so   *)
(* several calls are in progress at once and interleave at their awaits.   *)

\* handleMessage calls that may be in progress at once
MaxHandlers == 2
\* sessions the browser hands out before LanguageModel.create is no
\* longer called
MaxSessions == 3

HandlerIds == 1..MaxHandlers
MessageTypes == {"DETECT_INTENT", "FIND_ELEMENT_MATCH"}

Handler(at, type) == [at |-> at, type |-> type]
IdleHandler == Handler("idle", "")

\* what checkAIAvailability found (lines 151-200): the model is there, it
\* had to be downloaded by creating a session, or it is not available
Availabilities == {"available", "downloaded", "unavailable"}

\* the sessions created by "LanguageModel.create(sessionConfig)" (line 393)
configuredSessions == {i \in 1..Len(sessions) : sessions[i] = "configured"}

sessionFrame ==
    <<matcherVars, manipulatorVars, windowVars, resolverVars, classifierVars,
      dom, detectedElements, executorVars, lastOp>>

\* handleMessage(message) for DETECT_INTENT or FIND_ELEMENT_MATCH, lines
\* 537-539 and 552-554: with a session it goes on to the model call;
\* without one it calls initializeAI, which finds this.aiSession unset
\* (line 336) and awaits checkAIAvailability (line 341)
HandleMessage ==
    /\ \E h \in HandlerIds, type \in MessageTypes :
          /\ handlers[h].at = "idle"
          /\ handlers' = [handlers EXCEPT
                ![h] = Handler(IF aiSession # 0 THEN "prompting" ELSE "checking", type)]
    /\ UNCHANGED <<aiSession, sessions, sessionFrame>>

\* "await this.checkAIAvailability()" completes (lines 341-344)
AvailabilityChecked ==
    /\ \E h \in HandlerIds, availability \in Availabilities :
          /\ handlers[h].at = "checking"
          /\ CASE availability = "available" ->
                    /\ handlers' = [handlers EXCEPT ![h].at = "params"]
                    /\ UNCHANGED <<aiSession, sessions>>
               [] availability = "downloaded" ->
                    \* lines 175-179: this.aiSession = downloadSession
                    /\ Len(sessions) < MaxSessions
                    /\ sessions' = Append(sessions, "download")
                    /\ aiSession' = Len(sessions) + 1
                    /\ handlers' = [handlers EXCEPT ![h].at = "params"]
               [] availability = "unavailable" ->
                    \* line 343 throws; catch, lines 411-421; handleMessage
                    \* answers success=false and returns
                    /\ aiSession' = 0
                    /\ handlers' = [handlers EXCEPT ![h] = IdleHandler]
                    /\ UNCHANGED sessions
    /\ UNCHANGED sessionFrame

\* "await LanguageModel.params()" completes (line 347); the configuration
\* is built and LanguageModel.create(sessionConfig) is called (line 393)
ParamsResolved ==
    /\ \E h \in HandlerIds :
          /\ handlers[h].at = "params"
          /\ handlers' = [handlers EXCEPT ![h].at = "creating"]
    /\ UNCHANGED <<aiSession, sessions, sessionFrame>>

\* "this.aiSession = await LanguageModel.create(sessionConfig)" completes
\* (lines 393-410); handleMessage goes on to the model call
SessionCreated ==
    /\ \E h \in HandlerIds :
          /\ handlers[h].at = "creating"
          /\ Len(sessions) < MaxSessions
          /\ sessions' = Append(sessions, "configured")
          /\ aiSession' = Len(sessions) + 1
          /\ handlers' = [handlers EXCEPT ![h].at = "prompting"]
    /\ UNCHANGED sessionFrame

\* LanguageModel.params() or LanguageModel.create(sessionConfig) rejects:
\* catch, lines 411-421; handleMessage answers success=false and returns
InitializeFails ==
    /\ \E h \in HandlerIds :
          /\ handlers[h].at \in {"params", "creating"}
          /\ handlers' = [handlers EXCEPT ![h] = IdleHandler]
    /\ aiSession' = 0
    /\ UNCHANGED <<sessions, sessionFrame>>

\* detectActionIntent / findBestElementMatch returns and handleMessage
\* sends the response (lines 545-550, 560-565)
SendResponse ==
    /\ \E h \in HandlerIds :
          /\ handlers[h].at = "prompting"
          /\ handlers' = [handlers EXCEPT ![h] = IdleHandler]
    /\ UNCHANGED <<aiSession, sessions, sessionFrame>>

\* the state the constructor leaves (lines 5-13, 22): no session, unless
\* the availability check at startup had to download the model
SessionInit ==
    /\ \/ aiSession = 0 /\ sessions = <<>>
       \/ aiSession = 1 /\ sessions = <<"download">>
    /\ handlers = [h \in HandlerIds |-> IdleHandler]

SessionNext ==
    \/ HandleMessage
    \/ AvailabilityChecked
    \/ ParamsResolved
    \/ SessionCreated
    \/ InitializeFails
    \/ SendResponse

\* C30: under any interleaving of concurrently handled messages that need
\* the model, initializeAI creates at most one long-lived session.
C30_AtMostOneSession == Cardinality(configuredSessions) <= 1

-----------------------------------------------------------------------------
(* The page: DOM nodes as the detector and the executor see them *)

\* number of nodes of the document
MaxNodes == 2

\* attributes and content of an element ("" is an absent attribute)
Element(tag, typeAttr, role, href, id, className, text, name, placeholder, ariaLabel, inSearchRegion) ==
    [tag |-> tag, typeAttr |-> typeAttr, role |-> role, href |-> href,
     id |-> id, className |-> className, text |-> text, name |-> name,
     placeholder |-> placeholder, ariaLabel |-> ariaLabel,
     inSearchRegion |-> inSearchRegion]

ElementKinds ==
    { Element("button", "submit", "", FALSE, "", "btn primary", "Go", "", "", "", FALSE),
      Element("a", "", "button", TRUE, "home", "", "Home", "", "", "", FALSE),
      Element("input", "search", "", FALSE, "q", "", "", "q", "Search products", "", FALSE),
      Element("input", "", "", FALSE, "", "", "", "term", "", "Find", TRUE) }

\* computed style and bounding rectangle
Rendering(display, visibility, opacity, width, height) ==
    [display |-> display, visibility |-> visibility, opacity |-> opacity,
     width |-> width, height |-> height]

Shown == Rendering("block", "visible", "1", 100, 20)
DisplayNone == Rendering("none", "visible", "1", 0, 0)
\* a node outside the document has no box and no computed style
Unrendered == Rendering("", "", "", 0, 0)

Renderings ==
    { Shown,
      DisplayNone,
      Rendering("block", "hidden", "1", 100, 20),
      Rendering("block", "visible", "0", 100, 20),
      Rendering("block", "visible", "1", 0, 20),
      Rendering("block", "visible", "1", 5, 5) }

\* inline style properties that highlightElement touches
InlineStyle(outline, outlineOffset, zIndex) ==
    [outline |-> outline, outlineOffset |-> outlineOffset, zIndex |-> zIndex]

NoInlineStyle == InlineStyle("", "", "")

\* a node of the document
Node(el, rendering, style) ==
    [el |-> el, rendering |-> rendering, style |-> style,
     attached |-> TRUE, value |-> ""]

\* documents of n nodes, in document order
RECURSIVE DocumentsOfLen(_, _)
DocumentsOfLen(nodes, n) ==
    IF n = 0 THEN {<<>>}
    ELSE {Append(d, nd) : d \in DocumentsOfLen(nodes, n - 1), nd \in nodes}

Documents(nodes) == UNION {DocumentsOfLen(nodes, n) : n \in 1..MaxNodes}

NodeIds == 1..Len(dom)

\* the operation that ran last, with its arguments (element 0 is null)
Op(name, actionType, element) ==
    [name |-> name, actionType |-> actionType, element |-> element]

NoOp == Op("none", "", 0)

\* element.type as the DOM reports it
typeProperty(el) ==
    IF el.tag = "input" /\ el.typeAttr = "" THEN "text"
    ELSE IF el.tag = "button" /\ el.typeAttr = "" THEN "submit"
    ELSE el.typeAttr

-----------------------------------------------------------------------------
(* ElementDetector (element-detector.js) *)

\* isVisible(element), lines 166-182
isVisible(nd) ==
    IF nd.rendering.display = "none" \/ nd.rendering.visibility = "hidden"
          \/ nd.rendering.opacity = "0"
    THEN FALSE
    ELSE IF nd.rendering.width = 0 \/ nd.rendering.height = 0 THEN FALSE
    ELSE TRUE

\* s.substring(0, n)
substring0(s, n) == SubSeq(s, 1, IF Len(s) < n THEN Len(s) ELSE n)

\* getElementText(element), lines 187-200 (no title or alt attribute)
getElementText(nd) ==
    LET text == IF nd.el.text # "" THEN nd.el.text
                ELSE IF nd.value # "" THEN nd.value
                ELSE nd.el.ariaLabel
    IN  substring0(text, 100)

\* getInputLabel(element), lines 205-225 (the page has no label elements)
getInputLabel(nd) ==
    IF nd.el.placeholder # "" THEN nd.el.placeholder
    ELSE IF nd.el.ariaLabel # "" THEN nd.el.ariaLabel
    ELSE nd.el.name

IdChars == "abcdefghijklmnopqrstuvwxyzABCDEFGHIJKLMNOPQRSTUVWXYZ0123456789_"

IsIdChar(c) == \E i \in 1..Len(IdChars) : SubSeq(IdChars, i, i) = c

\* .replace(/\s+/g, "_")
RECURSIVE replaceWhitespace(_)
replaceWhitespace(s) ==
    IF Len(s) = 0 THEN ""
    ELSE IF SubSeq(s, 1, 1) = " "
    THEN IF Len(s) > 1 /\ SubSeq(s, 2, 2) = " "
         THEN replaceWhitespace(SubSeq(s, 2, Len(s)))
         ELSE "_" \o replaceWhitespace(SubSeq(s, 2, Len(s)))
    ELSE SubSeq(s, 1, 1) \o replaceWhitespace(SubSeq(s, 2, Len(s)))

\* .replace(/[^a-zA-Z0-9_]/g, "")
RECURSIVE removeNonIdChars(_)
removeNonIdChars(s) ==
    IF Len(s) = 0 THEN ""
    ELSE (IF IsIdChar(SubSeq(s, 1, 1)) THEN SubSeq(s, 1, 1) ELSE "")
            \o removeNonIdChars(SubSeq(s, 2, Len(s)))

\* generateUniqueId(element, type, index), lines 247-255; index is the
\* zero-based position in the querySelectorAll result
generateUniqueId(nd, type, index) ==
    removeNonIdChars(replaceWhitespace(
        type \o "_" \o nd.el.id \o "_" \o nd.el.className \o "_"
             \o substring0(getElementText(nd), 20) \o "_" \o ToString(index)))

\* one catalog entry; "" stands for a property the pass does not set
Entry(type, i, index) ==
    LET nd == dom[i]
        isField == type \in {"input", "search"}
    IN  [type |-> type,
         element |-> i,
         text |-> IF isField THEN "" ELSE getElementText(nd),
         label |-> IF type = "input" THEN getInputLabel(nd)
                   ELSE IF type = "search"
                        THEN (IF getInputLabel(nd) # "" THEN getInputLabel(nd) ELSE "Search")
                   ELSE "",
         placeholder |-> IF isField THEN nd.el.placeholder ELSE "",
         ariaLabel |-> nd.el.ariaLabel,
         id |-> nd.el.id,
         className |-> nd.el.className,
         width |-> nd.rendering.width,
         height |-> nd.rendering.height,
         uniqueId |-> generateUniqueId(nd, type, index)]

isButton(el) ==
    \/ el.tag = "button"
    \/ el.tag = "input" /\ el.typeAttr \in {"button", "submit"}
    \/ el.role = "button"

isLink(el) == el.tag = "a" /\ el.href

isInput(el) ==
    \/ el.tag = "input" /\ el.typeAttr \notin {"hidden", "button", "submit"}
    \/ el.tag = "textarea"

isSearchBar(el) ==
    /\ el.tag = "input"
    /\ \/ el.typeAttr = "search"
       \/ includes(toLowerCase(el.name), "search")
       \/ includes(toLowerCase(el.id), "search")
       \/ includes(toLowerCase(el.placeholder), "search")
       \/ includes(toLowerCase(el.ariaLabel), "search")
       \/ el.inSearchRegion

\* the selector each pass hands to querySelectorAll
matches(el, type) ==
    CASE type = "button" -> isButton(el)
      [] type = "link" -> isLink(el)
      [] type = "input" -> isInput(el)
      [] type = "search" -> isSearchBar(el)

\* document.querySelectorAll(selector): attached nodes in document order
RECURSIVE querySelectorAll(_, _)
querySelectorAll(type, k) ==
    IF k > Len(dom) THEN <<>>
    ELSE (IF dom[k].attached /\ matches(dom[k].el, type) THEN <<k>> ELSE <<>>)
            \o querySelectorAll(type, k + 1)

\* getAllLinks, lines 74-78: the two early returns of the link pass
linkKept_NoVisibilityCheck(nd) ==
    ~(nd.rendering.width < 10 \/ nd.rendering.height < 10)

linkKept(nd) ==
    isVisible(nd) /\ ~(nd.rendering.width < 10 \/ nd.rendering.height < 10)

\* the early returns at the top of each forEach callback
kept(nd, type) == IF type = "link" THEN linkKept(nd) ELSE isVisible(nd)

\* elements.forEach((element, index) => { if (...) return; push(...) })
RECURSIVE collect(_, _, _)
collect(found, type, k) ==
    IF k > Len(found) THEN <<>>
    ELSE (IF kept(dom[found[k]], type) THEN <<Entry(type, found[k], k - 1)>> ELSE <<>>)
            \o collect(found, type, k + 1)

\* getAllButtons, lines 42-64
getAllButtons == collect(querySelectorAll("button", 1), "button", 1)

\* getAllLinks, lines 69-94
getAllLinks == collect(querySelectorAll("link", 1), "link", 1)

\* getAllInputs, lines 99-124
getAllInputs == collect(querySelectorAll("input", 1), "input", 1)

\* getAllSearchBars, lines 129-161
getAllSearchBars == collect(querySelectorAll("search", 1), "search", 1)

\* lines 27-34: keep the first entry of every uniqueId
RECURSIVE removeDuplicates(_, _)
removeDuplicates(entries, seen) ==
    IF Len(entries) = 0 THEN <<>>
    ELSE IF Head(entries).uniqueId \in seen
    THEN removeDuplicates(Tail(entries), seen)
    ELSE <<Head(entries)>> \o
            removeDuplicates(Tail(entries), seen \cup {Head(entries).uniqueId})

\* getAllInteractiveElements(), lines 15-37
getAllInteractiveElements ==
    removeDuplicates(getAllSearchBars \o getAllButtons \o getAllLinks \o getAllInputs, {})

\* the content script scans the page
Scan ==
    /\ detectedElements' = getAllInteractiveElements
    /\ lastOp' = Op("scan", "", 0)
    /\ UNCHANGED <<matcherVars, sessionVars, manipulatorVars, windowVars, resolverVars, classifierVars, dom, executorVars>>

\* the page removes one of its nodes from the document
PageRemoves ==
    /\ \E i \in NodeIds :
          /\ dom[i].attached
          /\ dom' = [dom EXCEPT ![i].attached = FALSE, ![i].rendering = Unrendered]
    /\ lastOp' = Op("page", "", 0)
    /\ UNCHANGED <<matcherVars, sessionVars, manipulatorVars, windowVars, resolverVars, classifierVars, detectedElements, executorVars>>

DetectorInit ==
    /\ dom \in Documents({Node(el, r, NoInlineStyle) : el \in ElementKinds, r \in Renderings})
    /\ detectedElements = <<>>
    /\ lastOp = NoOp

DetectorNext ==
    \/ Scan
    \/ PageRemoves

-----------------------------------------------------------------------------
(* Properties of the element catalog *)

entriesOf(i) == {k \in 1..Len(detectedElements) : detectedElements[k].element = i}

\* C9: after a scan the catalog holds at most one entry per DOM node, also
\* for a node that two detection passes found.
C9_OneEntryPerNode ==
    lastOp.name = "scan" => \A i \in NodeIds : Cardinality(entriesOf(i)) <= 1

\* C10: every entry of the catalog was visible at scan time: non-zero width
\* and height, not display:none, not visibility:hidden, not opacity 0.
C10_CatalogVisible ==
    lastOp.name = "scan" =>
        \A k \in 1..Len(detectedElements) :
            LET entry == detectedElements[k]
                shown == dom[entry.element].rendering
            IN  /\ dom[entry.element].attached
                /\ entry.width # 0 /\ entry.height # 0
                /\ shown.width # 0 /\ shown.height # 0
                /\ shown.display # "none"
                /\ shown.visibility # "hidden"
                /\ shown.opacity # "0"

\* a scan that listed a link and left out an attached node that is a link
\* and a button but is not visible
C10_Witness ==
    /\ lastOp.name = "scan"
    /\ \E k \in 1..Len(detectedElements) : detectedElements[k].type = "link"
    /\ \E i \in NodeIds :
          /\ dom[i].attached
          /\ isLink(dom[i].el)
          /\ dom[i].rendering.visibility = "hidden"
          /\ entriesOf(i) = {}

-----------------------------------------------------------------------------
(* ActionExecutor (action-executor.js) *)

\* pending auto-removal timers the model keeps apart
MaxTimers == 2

\* result objects: { success, error } of execute*, { safe, needsConfirmation,
\* reason } of validateAction; threw marks a call that returned nothing
\* because an exception left it
Result(success, safe, needsConfirmation, message) ==
    [success |-> success, safe |-> safe,
     needsConfirmation |-> needsConfirmation, message |-> message, threw |-> FALSE]

NoResult == Result(FALSE, FALSE, FALSE, "")
Success == Result(TRUE, FALSE, FALSE, "")
Failure(error) == Result(FALSE, FALSE, FALSE, error)
Safe(needsConfirmation, reason) == Result(FALSE, TRUE, needsConfirmation, reason)
Unsafe(reason) == Result(FALSE, FALSE, FALSE, reason)
\* the call ended by throwing error to its caller
Thrown(error) == [Result(FALSE, FALSE, FALSE, error) EXCEPT !.threw = TRUE]

\* element.tagName is a string: true of elements, not of text nodes
hasTagName(el) == el.tag # "#text"

\* validateAction(actionType, element), lines 364-418; element 0 is null
validateAction_NoFileBlock(actionType, element) ==
    IF actionType \notin {"click", "scroll", "focus", "type"}
        THEN Unsafe("Action type is not whitelisted")
    ELSE IF actionType # "scroll" /\ element = 0
        THEN Unsafe("Target element not found")
    ELSE IF element # 0 /\ ~dom[element].attached
        THEN Unsafe("Element is no longer in document")
    ELSE IF element # 0 /\ ~hasTagName(dom[element].el)
        THEN Thrown("TypeError")
    ELSE Safe(FALSE, "")

\* validateAction without the document.body.contains(element) test
validateAction_NoAttachCheck(actionType, element) ==
    IF actionType \notin {"click", "scroll", "focus", "type"}
        THEN Unsafe("Action type is not whitelisted")
    ELSE IF actionType # "scroll" /\ element = 0
        THEN Unsafe("Target element not found")
    ELSE IF element # 0 /\ dom[element].el.tag = "input"
                       /\ typeProperty(dom[element].el) = "file"
        THEN Unsafe("File inputs are not allowed")
    ELSE Safe(FALSE, "")

validateAction(actionType, element) ==
    IF actionType \notin {"click", "scroll", "focus", "type"}
        THEN Unsafe("Action type is not whitelisted")
    ELSE IF actionType # "scroll" /\ element = 0
        THEN Unsafe("Target element not found")
    ELSE IF element # 0 /\ ~dom[element].attached
        THEN Unsafe("Element is no longer in document")
    ELSE IF element # 0 /\ ~hasTagName(dom[element].el)
        THEN Thrown("TypeError")
    ELSE IF element # 0
        THEN LET tagName == toLowerCase(dom[element].el.tag)
                 type == toLowerCase(typeProperty(dom[element].el))
             IN  IF tagName = "input" /\ type = "file"
                     THEN Unsafe("File inputs are not allowed")
                 ELSE IF tagName = "input" /\ type = "password"
                     THEN Safe(TRUE, "Action involves password field")
                 ELSE IF \/ tagName = "button" /\ type = "submit"
                         \/ tagName = "input" /\ type = "submit"
                     THEN Safe(TRUE, "Action will submit a form")
                 ELSE Safe(FALSE, "")
    ELSE Safe(FALSE, "")

ActionTypes == {"click", "scroll", "focus", "type", "navigate", "modify_theme"}

\* this.highlightedElement
Highlight(element, original) == [element |-> element, original |-> original]
NoHighlight == Highlight(0, NoInlineStyle)

HighlightStyle == InlineStyle("3px solid #FFD700", "2px", "999999")

\* removeHighlight that clears the three properties instead of restoring them
domAfterRemoveHighlight_ClearsStyle(d, h) ==
    IF h # NoHighlight THEN [d EXCEPT ![h.element].style = NoInlineStyle] ELSE d

\* removeHighlight(), lines 327-342: the document after the call
domAfterRemoveHighlight(d, h) ==
    IF h # NoHighlight THEN [d EXCEPT ![h.element].style = h.original] ELSE d

\* highlightElement(element, actionType), lines 252-285: the document after
\* the call; the label it appends lives as long as its timer
domAfterHighlight(element) ==
    LET d == domAfterRemoveHighlight(dom, highlightedElement)
    IN  [d EXCEPT ![element].style = HighlightStyle]

highlightAfterHighlight(element) ==
    Highlight(element, domAfterRemoveHighlight(dom, highlightedElement)[element].style)

\* the call suspended in "await this.sleep(options.delay || 300)"
Call(name, element, text) == [name |-> name, element |-> element, text |-> text]
NoCall == Call("none", 0, "")

\* this.lastAction
Action(type, element, text) == [type |-> type, element |-> element, text |-> text]
NoAction == Action("", 0, "")

TypedTexts == {"hello", ""}

\* executeClick / executeType / executeFocus called with no element
\* (lines 20-22, 152-154, 211-213)
ExecuteWithoutElement ==
    /\ exec = NoCall
    /\ result' = Failure("Element not found")
    /\ effects' = <<>>
    /\ UNCHANGED <<matcherVars, sessionVars, manipulatorVars, windowVars, resolverVars, classifierVars, dom, detectedElements, exec, lastAction,
                   highlightedElement, timers, lastOp>>

\* executeClick / executeType / executeFocus up to the settle delay:
\* optional highlight, scrollIntoView, then "await this.sleep(...)"
\* (lines 24-37, 156-169, 215-228)
ExecuteStart ==
    /\ exec = NoCall
    /\ \E name \in {"click", "type", "focus"}, element \in NodeIds,
          text \in TypedTexts, highlight \in BOOLEAN :
          /\ exec' = Call(name, element, IF name = "type" THEN text ELSE "")
          /\ IF highlight
             THEN /\ timers < MaxTimers
                  /\ dom' = domAfterHighlight(element)
                  /\ highlightedElement' = highlightAfterHighlight(element)
                  /\ timers' = timers + 1
                  /\ effects' = <<"highlight", "scrollIntoView">>
             ELSE /\ effects' = <<"scrollIntoView">>
                  /\ UNCHANGED <<dom, highlightedElement, timers>>
    /\ result' = NoResult
    /\ UNCHANGED <<matcherVars, sessionVars, manipulatorVars, windowVars, resolverVars, classifierVars, detectedElements, lastAction, lastOp>>

\* element.value = text (line 180) throws InvalidStateError on a file
\* input unless text is empty
valueAssignmentThrows(call) ==
    /\ call.name = "type"
    /\ call.text # ""
    /\ dom[call.element].el.tag = "input"
    /\ typeProperty(dom[call.element].el) = "file"

\* effectsOfCall with executeType returning before the change event
effectsOfCall_NoChangeEvent(call) ==
    CASE call.name = "click" -> <<"click">>
      [] call.name = "type" /\ valueAssignmentThrows(call) -> <<"focus">>
      [] call.name = "type" /\ ~valueAssignmentThrows(call) ->
            <<"focus", "value", "input">>
      [] call.name = "focus" -> <<"focus">>

\* what the statements after the settle delay do to the page
\* (lines 39-40, 171-187, 230-231)
effectsOfCall(call) ==
    CASE call.name = "click" -> <<"click">>
      [] call.name = "type" /\ valueAssignmentThrows(call) -> <<"focus">>
      [] call.name = "type" /\ ~valueAssignmentThrows(call) ->
            <<"focus", "value", "input", "change">>
      [] call.name = "focus" -> <<"focus">>

\* the part of execute* after the settle delay, up to the return of the
\* try block or of its catch (lines 39-56, 171-200, 230-243)
ExecuteFinish ==
    /\ exec # NoCall
    /\ effects' = effects \o effectsOfCall(exec)
    /\ IF valueAssignmentThrows(exec)
       THEN /\ dom' = [dom EXCEPT ![exec.element].value = ""]
            /\ result' = Failure("InvalidStateError")
            /\ UNCHANGED lastAction
       ELSE /\ dom' = IF exec.name = "type"
                      THEN [dom EXCEPT ![exec.element].value = exec.text]
                      ELSE dom
            /\ lastAction' = Action(exec.name, exec.element, exec.text)
            /\ result' = Success
    /\ exec' = NoCall
    /\ UNCHANGED <<matcherVars, sessionVars, manipulatorVars, windowVars, resolverVars, classifierVars, detectedElements, highlightedElement, timers, lastOp>>

\* setTimeout(() => { this.removeHighlight(); label.remove() }, 1500) fires
HighlightTimerFires ==
    /\ timers > 0
    /\ timers' = timers - 1
    /\ dom' = domAfterRemoveHighlight(dom, highlightedElement)
    /\ highlightedElement' = NoHighlight
    /\ UNCHANGED <<matcherVars, sessionVars, manipulatorVars, windowVars, resolverVars, classifierVars, detectedElements, exec, lastAction, effects, result, lastOp>>

\* a caller asks validateAction(actionType, element)
ValidateAction ==
    /\ \E actionType \in ActionTypes, element \in {0} \cup NodeIds :
          /\ result' = validateAction(actionType, element)
          /\ lastOp' = Op("validateAction", actionType, element)
    /\ UNCHANGED <<matcherVars, sessionVars, manipulatorVars, windowVars, resolverVars, classifierVars, dom, detectedElements, exec, lastAction,
                   highlightedElement, timers, effects>>

\* the elements the executor is pointed at: all rendered
ExecutorNodes ==
    { Node(Element("input", "search", "", FALSE, "q", "", "", "q", "Search products", "", FALSE),
           Shown, InlineStyle("1px solid red", "", "5")),
      Node(Element("input", "file", "", FALSE, "", "", "", "upload", "", "Attach", FALSE),
           Shown, NoInlineStyle) }

\* the elements validateAction is asked about
ValidatedNodes ==
    ExecutorNodes \cup
    { Node(Element("button", "submit", "", FALSE, "", "btn primary", "Go", "", "", "", FALSE),
           Shown, NoInlineStyle),
      Node(Element("input", "password", "", FALSE, "pw", "", "", "pw", "", "", FALSE),
           Shown, NoInlineStyle),
      Node(Element("a", "", "button", TRUE, "home", "", "Home", "", "", "", FALSE),
           Shown, NoInlineStyle),
      \* a text node: a Node of the document that is not an Element
      Node(Element("#text", "", "", FALSE, "", "", "Home", "", "", "", FALSE),
           Shown, NoInlineStyle) }

ExecutorIdle ==
    /\ exec = NoCall
    /\ lastAction = NoAction
    /\ highlightedElement = NoHighlight
    /\ timers = 0
    /\ effects = <<>>
    /\ result = NoResult

ExecutorInit ==
    /\ dom \in Documents(ExecutorNodes)
    /\ detectedElements = <<>>
    /\ lastOp = NoOp
    /\ ExecutorIdle

ExecutorNext ==
    \/ ExecuteWithoutElement
    \/ ExecuteStart
    \/ ExecuteFinish
    \/ HighlightTimerFires
    \/ PageRemoves

\* executeClick / executeType / executeFocus called with an element that
\* is in the document at the moment of the call
ExecuteOnAttached ==
    /\ ExecuteStart
    /\ dom[exec'.element].attached

\* the executor handed attached elements only, on a page that may drop nodes
StalenessNext ==
    \/ ExecuteOnAttached
    \/ ExecuteFinish
    \/ HighlightTimerFires
    \/ PageRemoves

ValidateInit ==
    /\ dom \in Documents(ValidatedNodes)
    /\ detectedElements = <<>>
    /\ lastOp = NoOp
    /\ ExecutorIdle

ValidateNext ==
    \/ ValidateAction
    \/ PageRemoves

-----------------------------------------------------------------------------
(* Properties of the action executor *)

\* C7: executeClick, executeType and executeFocus apply their DOM effect
\* (and report success) only on an element that validateAction accepts at
\* that moment.
C7_EffectOnlyOnValidatedElement ==
    [][(exec # NoCall /\ exec' = NoCall /\ result'.success)
          => validateAction(exec.name, exec.element).safe]_vars

C8_FileInputNeverSafe ==
    (/\ lastOp.name = "validateAction"
     /\ lastOp.element # 0
     /\ dom[lastOp.element].el.tag = "input"
     /\ dom[lastOp.element].el.typeAttr = "file")
        => ~result.safe

\* an attached file input asked about with a whitelisted action type
C8_Witness ==
    /\ lastOp = Op("validateAction", "click", 1)
    /\ dom[1].attached
    /\ dom[1].el.typeAttr = "file"
    /\ result = Unsafe("File inputs are not allowed")

\* C19: validateAction answers safe=true only for an action type among
\* click, scroll, focus and type, with an element supplied unless the type
\* is scroll, and with the supplied element attached to the document; any
\* other action type, a missing element or a detached element gives
\* safe=false.
C19_SafeOnlyIfWhitelistedAndAttached ==
    lastOp.name = "validateAction" =>
        (result.safe =>
            /\ lastOp.actionType \in {"click", "scroll", "focus", "type"}
            /\ (lastOp.actionType # "scroll" => lastOp.element # 0)
            /\ (lastOp.element # 0 => dom[lastOp.element].attached))

\* a whitelisted action asked about an element the page has removed
C19_Witness ==
    /\ lastOp.name = "validateAction"
    /\ lastOp.actionType = "click"
    /\ lastOp.element # 0
    /\ ~dom[lastOp.element].attached
    /\ result = Unsafe("Element is no longer in document")

\* C16: no exception crosses a component boundary: every operation of the
\* executor, validateAction included, completes with a structured result
\* for every input, it never ends by throwing to its caller.
C16_NoExceptionEscapes == ~result.threw

\* the inline outline, outline-offset and z-index a node had before the
\* executor first touched it
originalStyle(i) ==
    (CHOOSE nd \in ExecutorNodes : nd.el = dom[i].el).style

\* C17: once every scheduled removal has fired, highlightedElement is null
\* and every element's inline outline, outline-offset and z-index are the
\* ones it had before it was first highlighted; a removeHighlight that finds
\* no active highlight changes nothing.
C17_HighlightRestored ==
    /\ [](timers = 0 =>
            /\ highlightedElement = NoHighlight
            /\ \A i \in NodeIds : dom[i].style = originalStyle(i))
    /\ [][(timers' = timers - 1 /\ highlightedElement = NoHighlight)
            => (highlightedElement' = NoHighlight
                /\ \A i \in NodeIds : dom'[i].style = dom[i].style)]_vars

\* all removals have fired after a highlight that replaced the inline
\* style of the search input
C17_Witness ==
    /\ timers = 0
    /\ exec # NoCall
    /\ dom[exec.element].el.typeAttr = "search"
    /\ dom[exec.element].style = InlineStyle("1px solid red", "", "5")
    /\ highlightedElement = NoHighlight
    /\ effects = <<"highlight", "scrollIntoView">>

\* C26: staleness is never silently ignored: when the element was in the
\* document at the call of executeClick, executeType or executeFocus and
\* the page removed it during the settle delay, the call does not report
\* success.
C26_StaleElementFails ==
    [][(exec # NoCall /\ exec' = NoCall /\ ~dom[exec.element].attached)
          => ~result'.success]_vars

\* C28: a scheduled removal removes only the highlight it was scheduled
\* for.  Removals fire in the order they were scheduled (same delay), and
\* the current highlight belongs to the newest one, so a removal that
\* fires while a newer one is pending leaves highlightedElement and the
\* styles of the page as they are.
C28_TimerRemovesOwnHighlight ==
    [][(timers > 1 /\ timers' = timers - 1)
          => (highlightedElement' = highlightedElement /\ dom' = dom)]_vars

-----------------------------------------------------------------------------
(* JavaScript numbers of the match score                                   *)
(*                                                                         *)
(* calculateMatchScore adds the literals 0.1, 0.3, 0.4 and 0.5 in IEEE-754 *)
(* double precision.  A double below 4 that is a multiple of 2^-56 is kept *)
(* as the integer m with value m * 2^-56, split in two limbs               *)
(* m = hi * 2^28 + lo, so that every intermediate fits TLC's integers.     *)
(* All the literals above are such multiples.                              *)

Limb == 16384 * 16384

Double(hi, lo) == [hi |-> hi, lo |-> lo]

\* the doubles nearest to the decimal literals of the source, by hundredths
Literal(hundredths) ==
    CASE hundredths = 0   -> Double(0, 0)
      [] hundredths = 10  -> Double(26843545, 161061274)
      [] hundredths = 30  -> Double(80530636, 214748364)
      [] hundredths = 40  -> Double(107374182, 107374184)
      [] hundredths = 50  -> Double(134217728, 0)
      [] hundredths = 70  -> Double(187904819, 53687088)
      [] hundredths = 100 -> Double(268435456, 0)

\* a < b and a >= b on doubles
LessThan(a, b) == a.hi < b.hi \/ (a.hi = b.hi /\ a.lo < b.lo)
AtLeast(a, b) == ~LessThan(a, b)

\* the spacing of doubles around the exact value x, in units of 2^-56
ulp(x) ==
    IF x.hi >= 2 * Limb THEN 32
    ELSE IF x.hi >= Limb THEN 16
    ELSE IF 2 * x.hi >= Limb THEN 8
    ELSE IF 4 * x.hi >= Limb THEN 4
    ELSE IF 8 * x.hi >= Limb THEN 2
    ELSE 1

\* a + b: the exact sum rounded to the nearest double, ties to even
Plus(a, b) ==
    LET lo == a.lo + b.lo
        exact == Double(a.hi + b.hi + (lo \div Limb), lo % Limb)
        u == ulp(exact)
        r == exact.lo % u
        down == exact.lo - r
        odd == (exact.lo \div u) % 2 = 1
        up == 2 * r > u \/ (2 * r = u /\ odd)
        rounded == IF up THEN down + u ELSE down
    IN  Double(exact.hi + (rounded \div Limb), rounded % Limb)

\* Math.min(a, b)
MathMin(a, b) == IF LessThan(b, a) THEN b ELSE a

RECURSIVE SumDoubles(_, _)
\* score += t for the terms t of ts, in order, starting from acc
SumDoubles(acc, ts) ==
    IF ts = <<>> THEN acc
    ELSE SumDoubles(Plus(acc, Literal(Head(ts))), Tail(ts))

-----------------------------------------------------------------------------
(* ElementDetector: calculateMatchScore and findElementByDescription *)

RECURSIVE splitFrom(_, _, _)
\* the pieces of s from position i on, cur being the piece under way
splitFrom(s, i, cur) ==
    IF i > Len(s) THEN <<cur>>
    ELSE IF SubSeq(s, i, i) = " "
         THEN IF i > 1 /\ SubSeq(s, i - 1, i - 1) = " "
              THEN splitFrom(s, i + 1, cur)
              ELSE <<cur>> \o splitFrom(s, i + 1, "")
         ELSE splitFrom(s, i + 1, cur \o SubSeq(s, i, i))

\* description.split(/\s+/)
split(s) == splitFrom(s, 1, "")

\* (element.text || element.label || element.placeholder || "").toLowerCase()
elementText(element) ==
    toLowerCase(IF element.text # "" THEN element.text
                ELSE IF element.label # "" THEN element.label
                ELSE element.placeholder)

RECURSIVE partialTerms(_, _)
\* one 0.1 per word of the description that the element text contains
partialTerms(words, text) ==
    IF words = <<>> THEN <<>>
    ELSE (IF includes(text, Head(words)) /\ Len(Head(words)) > 2 THEN <<10>> ELSE <<>>)
         \o partialTerms(Tail(words), text)

\* scoreTerms without the bonus of a search bar asked for by name
scoreTerms_NoSearchBonus(element, description) ==
    LET text == elementText(element)
    IN  (IF includes(description, element.type) THEN <<30>> ELSE <<>>)
        \o (IF text # "" /\ includes(description, text) THEN <<50>>
            ELSE IF text # "" THEN partialTerms(split(description), text)
            ELSE <<>>)

\* the numbers calculateMatchScore adds to score, in hundredths, in the order
\* it adds them
scoreTerms(element, description) ==
    LET text == elementText(element)
        ariaLabel == toLowerCase(element.ariaLabel)
        placeholder == toLowerCase(element.placeholder)
    IN  (IF includes(description, element.type) THEN <<30>> ELSE <<>>)
        \o (IF text # "" /\ includes(description, text) THEN <<50>>
            ELSE IF text # "" THEN partialTerms(split(description), text)
            ELSE <<>>)
        \o (IF ariaLabel # "" /\ includes(description, ariaLabel) THEN <<40>> ELSE <<>>)
        \o (IF placeholder # "" /\ includes(description, placeholder) THEN <<30>> ELSE <<>>)
        \o (IF element.type = "search" /\ includes(description, "search") THEN <<40>> ELSE <<>>)

calculateMatchScore(element, description) ==
    MathMin(SumDoubles(Literal(0), scoreTerms(element, description)), Literal(100))

\* findElementByDescription returned null
NoMatch == 0

RECURSIVE bestFrom(_, _, _, _)
\* the forEach of findElementByDescription from entry k on; the result is
\* bestMatch (an index of detectedElements) and bestScore
bestFrom(k, lowerDesc, bestMatch, bestScore) ==
    IF k > Len(detectedElements) THEN [bestMatch |-> bestMatch, bestScore |-> bestScore]
    ELSE LET score == calculateMatchScore(detectedElements[k], lowerDesc)
         IN  IF LessThan(bestScore, score)
             THEN bestFrom(k + 1, lowerDesc, k, score)
             ELSE bestFrom(k + 1, lowerDesc, bestMatch, bestScore)

findElementByDescription(description) ==
    IF description = "" THEN NoMatch
    ELSE LET best == bestFrom(1, toLowerCase(description), NoMatch, Literal(0))
         IN  IF LessThan(Literal(30), best.bestScore) THEN best.bestMatch ELSE NoMatch

\* the descriptions the content script asks about
Descriptions ==
    {"", "Search", "search bar", "the home link", "hom ome hom", "ome", "go",
     "hom ome hom ome hom ome", "press the button", "find"}

\* the content script resolves a description against the catalog
FindElementByDescription ==
    /\ \E description \in Descriptions :
          /\ query' = description
          /\ match' = findElementByDescription(description)
    /\ lastOp' = Op("findElementByDescription", "", 0)
    /\ UNCHANGED <<matcherVars, sessionVars, manipulatorVars, windowVars, classifierVars, dom, detectedElements, executorVars>>

ResolverIdle ==
    /\ query = ""
    /\ match = NoMatch

\* a page of visible interactive elements, not scanned yet
ResolverInit ==
    /\ dom \in Documents({Node(el, Shown, NoInlineStyle) : el \in ElementKinds})
    /\ detectedElements = <<>>
    /\ lastOp = NoOp
    /\ ResolverIdle

ResolverNext ==
    \/ Scan
    \/ FindElementByDescription

-----------------------------------------------------------------------------
(* Properties of the match score *)

Resolved == lastOp.name = "findElementByDescription"

\* the description of the last call as calculateMatchScore receives it
lowerQuery == toLowerCase(query)

\* the description with the element's full display text appended
withFullText(element) == lowerQuery \o " " \o elementText(element)

\* C11: for every catalog entry with a display text and every description
\* D, the score of D with the entry's exact full display text appended is
\* at least the score of D alone.
C11_ScoreMonotonic ==
    (Resolved /\ query # "") =>
        \A k \in 1..Len(detectedElements) :
            LET element == detectedElements[k]
            IN  elementText(element) # "" =>
                    AtLeast(calculateMatchScore(element, withFullText(element)),
                            calculateMatchScore(element, lowerQuery))

RECURSIVE Sum(_)
\* the sum of a sequence of hundredths in exact arithmetic
Sum(ts) == IF ts = <<>> THEN 0 ELSE Head(ts) + Sum(Tail(ts))

\* the bonuses an entry earns for the last description, added exactly
bonuses(k) == Sum(scoreTerms(detectedElements[k], lowerQuery))

\* C12: findElementByDescription returns an element only when the best
\* entry's bonuses add up to strictly more than 0.3; three 0.1 partial-word
\* bonuses alone do not produce a match.
C12_MatchOnlyAboveThreshold ==
    (Resolved /\ match # NoMatch) => bonuses(match) > 30

\* C13: when the catalog holds an entry of kind search and the description
\* contains the word search, that entry scores at least 0.7 and
\* findElementByDescription returns an element.
C13_SearchBarResolves ==
    (Resolved /\ includes(lowerQuery, "search")) =>
        \A k \in 1..Len(detectedElements) :
            detectedElements[k].type = "search" =>
                /\ AtLeast(calculateMatchScore(detectedElements[k], lowerQuery), Literal(70))
                /\ match # NoMatch

\* "Search" asked of a catalog that holds a search bar
C13_Witness ==
    /\ Resolved
    /\ query = "Search"
    /\ \E k \in 1..Len(detectedElements) : detectedElements[k].type = "search"
    /\ match # NoMatch

-----------------------------------------------------------------------------
(* ActionExecutor: executeScroll and executeNavigate *)

\* window.scrollX and window.scrollY
Scroll(x, y) == [x |-> x, y |-> y]

\* the largest scroll offsets the document allows
ScrollExtent == Scroll(500, 1000)

\* the browser keeps a scroll offset between 0 and the extent
clamp(v, max) == IF v < 0 THEN 0 ELSE IF v > max THEN max ELSE v

\* window.scrollBy({ left, top })
scrollBy(pos, left, top) ==
    Scroll(clamp(pos.x + left, ScrollExtent.x), clamp(pos.y + top, ScrollExtent.y))

\* window.scrollTo({ top })
scrollTo(pos, top) == Scroll(pos.x, clamp(top, ScrollExtent.y))

\* options.amount || 500
DefaultAmount == 500
amountOf(amount) == IF Truthy(amount) THEN amount.num ELSE DefaultAmount

\* a value that has a toLowerCase method
IsString(v) == v.tag = "string"

\* the switch of executeScroll: the scroll offset after the call, or the
\* offset unchanged for a direction that reaches the default branch
scrollAfter(pos, direction, amount) ==
    LET d == toLowerCase(direction.str)
    IN  CASE d = "up" -> scrollBy(pos, 0, 0 - amount)
          [] d = "down" -> scrollBy(pos, 0, amount)
          [] d = "top" -> scrollTo(pos, 0)
          [] d = "bottom" -> scrollTo(pos, ScrollExtent.y)
          [] d = "left" -> scrollBy(pos, 0 - amount, 0)
          [] d = "right" -> scrollBy(pos, amount, 0)
          [] OTHER -> pos

knownDirection(direction) ==
    toLowerCase(direction.str) \in {"up", "down", "top", "bottom", "left", "right"}

Directions ==
    {JStr("up"), JStr("Down"), JStr("top"), JStr("bottom"), JStr("left"),
     JStr("right"), JStr("sideways"), JUndefined}

Amounts == {JUndefined, JNum(0), JNum(250)}

\* executeScroll(direction, options), lines 65-106
ExecuteScroll ==
    /\ exec = NoCall
    /\ \E direction \in Directions, amount \in Amounts :
          /\ arg' = direction
          /\ IF ~IsString(direction)
             THEN /\ result' = Failure("TypeError")
                  /\ effects' = <<>>
                  /\ UNCHANGED <<scrollPos, lastAction>>
             ELSE IF ~knownDirection(direction)
             THEN /\ result' = Failure("Unknown direction")
                  /\ effects' = <<>>
                  /\ UNCHANGED <<scrollPos, lastAction>>
             ELSE /\ scrollPos' = scrollAfter(scrollPos, direction, amountOf(amount))
                  /\ effects' = <<"scroll">>
                  /\ lastAction' = Action("scroll", 0, direction.str)
                  /\ result' = Success
    /\ lastOp' = Op("executeScroll", "", 0)
    /\ UNCHANGED <<matcherVars, sessionVars, manipulatorVars, resolverVars, classifierVars, dom, detectedElements, exec,
                   highlightedElement, timers>>

\* navigationPrimitive that compares the action as given
navigationPrimitive_CaseSensitive(action) ==
    CASE action.str = "back" -> "history.back"
      [] action.str = "forward" -> "history.forward"
      [] action.str \in {"refresh", "reload"} -> "location.reload"
      [] OTHER -> ""

\* the switch of executeNavigate: the browser primitive the action selects,
\* "" for the default branch
navigationPrimitive(action) ==
    LET a == toLowerCase(action.str)
    IN  CASE a = "back" -> "history.back"
          [] a = "forward" -> "history.forward"
          [] a \in {"refresh", "reload"} -> "location.reload"
          [] OTHER -> ""

NavigationActions ==
    {JStr("back"), JStr("Forward"), JStr("refresh"), JStr("reload"),
     JStr("home"), JStr(""), JUndefined}

\* executeNavigate(action), lines 113-141
ExecuteNavigate ==
    /\ exec = NoCall
    /\ \E action \in NavigationActions :
          /\ arg' = action
          /\ IF ~IsString(action)
             THEN /\ result' = Failure("TypeError")
                  /\ effects' = <<>>
                  /\ UNCHANGED lastAction
             ELSE IF navigationPrimitive(action) = ""
             THEN /\ result' = Failure("Unknown navigation")
                  /\ effects' = <<>>
                  /\ UNCHANGED lastAction
             ELSE /\ effects' = <<navigationPrimitive(action)>>
                  /\ lastAction' = Action("navigate", 0, action.str)
                  /\ result' = Success
    /\ lastOp' = Op("executeNavigate", "", 0)
    /\ UNCHANGED <<matcherVars, sessionVars, manipulatorVars, resolverVars, classifierVars, dom, detectedElements, exec,
                   highlightedElement, timers, scrollPos>>

WindowIdle ==
    /\ scrollPos = Scroll(0, 0)
    /\ arg = JUndefined

\* the executor on a page at its top left corner, nothing done yet
NavigateInit ==
    /\ dom = <<>>
    /\ detectedElements = <<>>
    /\ lastOp = NoOp
    /\ ExecutorIdle
    /\ ResolverIdle
    /\ WindowIdle

NavigateNext ==
    \/ ExecuteScroll
    \/ ExecuteNavigate

\* the action of the last executeNavigate call, lower-cased
navigated == toLowerCase(arg.str)

\* C15 as stated: executeNavigate succeeds only for back, forward and
\* refresh in any letter case; for every other value it returns
\* success=false, calls no history or reload primitive and leaves
\* lastAction alone.
C15_NavigateOnlyBackForwardRefresh ==
    [][lastOp'.name = "executeNavigate" =>
          IF IsString(arg') /\ toLowerCase(arg'.str) \in {"back", "forward", "refresh"}
          THEN result'.success
          ELSE ~result'.success /\ effects' = <<>> /\ lastAction' = lastAction]_vars

\* C15 amended: executeNavigate succeeds exactly for back, forward, refresh
\* and reload in any letter case; for every other value it returns
\* success=false, calls no history or reload primitive and leaves
\* lastAction alone.
C15_NavigateOnlyKnownActions ==
    [][lastOp'.name = "executeNavigate" =>
          IF IsString(arg') /\ toLowerCase(arg'.str) \in {"back", "forward", "refresh", "reload"}
          THEN result'.success /\ effects' # <<>> /\ lastAction'.type = "navigate"
          ELSE ~result'.success /\ effects' = <<>> /\ lastAction' = lastAction]_vars

\* executeNavigate("home") refused after an earlier successful action
C15_Witness ==
    /\ lastOp.name = "executeNavigate"
    /\ arg = JStr("home")
    /\ ~result.success
    /\ effects = <<>>
    /\ lastAction # NoAction

-----------------------------------------------------------------------------
(* PageManipulator (class PageManipulator, INTENT_CLASSIFICATION_FIX.md)   *)
(*                                                                         *)
(* The text of the custom style element is kept as the sequence of its     *)
(* "/* id start */ ... /* id end */" blocks; the line breaks that          *)
(* updateCustomStyles leaves between blocks are not kept.                  *)

\* an element of the manipulated page: its inline display and the three
\* data-lavio-* attributes; savedDisplay "" stands for an absent or empty
\* data-lavio-display, which the code never tells apart
PageElement(tag, className, display) ==
    [tag |-> tag, className |-> className, display |-> display,
     hidden |-> FALSE, focusHidden |-> FALSE, savedDisplay |-> ""]

\* the pages the manipulator works on
ManipulatedPages ==
    { <<PageElement("aside", "sidebar", "flex"), PageElement("div", "comments", "")>>,
      <<PageElement("div", "sidebar", ""), PageElement("main", "", "block")>> }

PageIds == 1..Len(page)

\* the selector hideElements builds for a target (lines 801-840)
hideSelectorMatches(target, el) ==
    CASE target = "sidebar" -> includes(el.className, "sidebar") \/ el.tag = "aside"
      [] target = "images" -> el.tag = "img"
      [] OTHER -> el.tag = target

\* distractionSelectors of enableFocusMode (lines 1088-1096)
isDistraction(el) ==
    \/ \E part \in {"ad-", "sidebar", "comment", "related", "recommend"} :
          includes(el.className, part)
    \/ el.tag \in {"aside", "nav"}

StyleBlock(id, css) == [id |-> id, css |-> css]

\* updateCustomStyles(id, css), lines 1243-1264: the blocks afterwards
updateCustomStyles(blocks, id, css) ==
    LET OtherId(b) == b.id # id
        rest == SelectSeq(blocks, OtherId)
    IN  IF css # "" THEN Append(rest, StyleBlock(id, css)) ELSE rest

Manipulation(id, description) == [id |-> id, description |-> description]

\* removeManipulation(id), lines 1289-1293
removeManipulation(active, id) ==
    LET OtherId(m) == m.id # id
    IN  SelectSeq(active, OtherId)

\* addManipulation(id, description), lines 1271-1283
addManipulation(active, id, description) ==
    Append(removeManipulation(active, id), Manipulation(id, description))

\* text size multipliers are kept in hundredths, as applyTextSize rounds them
TextSizeRequests ==
    {[action |-> JStr("set"), value |-> 150], [action |-> JStr("set"), value |-> 300],
     [action |-> JStr("Reset"), value |-> 0], [action |-> JStr("huge"), value |-> 0],
     [action |-> JUndefined, value |-> 0]}

\* the switch of adjustTextSize (lines 505-533): the new multiplier, or 0
\* for the default branch
newMultiplier(request) ==
    LET a == toLowerCase(request.action.str)
    IN  CASE a = "reset" -> 100
          [] a = "set" -> IF request.value # 0 /\ request.value >= 50 /\ request.value <= 200
                          THEN request.value ELSE textSizeMultiplier
          [] OTHER -> 0

\* adjustTextSize(action, value), lines 501-555, with applyTextSize
AdjustTextSize ==
    /\ \E request \in TextSizeRequests :
          IF ~IsString(request.action)
          THEN /\ result' = Failure("Failed to adjust text size")
               /\ UNCHANGED <<textSizeMultiplier, customStyles, activeManipulations>>
          ELSE IF newMultiplier(request) = 0
          THEN /\ result' = Failure("Unknown text size action")
               /\ UNCHANGED <<textSizeMultiplier, customStyles, activeManipulations>>
          ELSE /\ textSizeMultiplier' = newMultiplier(request)
               /\ customStyles' = updateCustomStyles(customStyles, "textSize",
                                       "font-size " \o ToString(newMultiplier(request)))
               /\ activeManipulations' = addManipulation(activeManipulations, "textSize",
                                       "Text size: " \o ToString(newMultiplier(request)) \o "%")
               /\ result' = Success
    /\ lastOp' = Op("adjustTextSize", "", 0)
    /\ UNCHANGED <<page, hiddenElements, isDarkModeEnabled, zoom>>
    /\ UNCHANGED otherVars

\* toggleDarkMode(enable), lines 587-617, with applyDarkMode / removeDarkMode
ToggleDarkMode ==
    /\ \E enable \in {JNull, JBool(TRUE), JBool(FALSE)} :
          LET on == IF enable = JNull THEN ~isDarkModeEnabled ELSE Truthy(enable)
          IN  /\ isDarkModeEnabled' = on
              /\ IF on
                 THEN /\ customStyles' = updateCustomStyles(customStyles, "darkMode", "invert")
                      /\ activeManipulations' =
                            addManipulation(activeManipulations, "darkMode", "Dark mode enabled")
                 ELSE /\ customStyles' = updateCustomStyles(customStyles, "darkMode", "")
                      /\ activeManipulations' = removeManipulation(activeManipulations, "darkMode")
    /\ result' = Success
    /\ lastOp' = Op("toggleDarkMode", "", 0)
    /\ UNCHANGED <<page, hiddenElements, textSizeMultiplier, zoom>>
    /\ UNCHANGED otherVars

\* elements.forEach of hideElements (lines 849-856): the page afterwards
pageAfterHide(target) ==
    [i \in PageIds |->
        IF hideSelectorMatches(target, page[i]) /\ ~page[i].hidden
        THEN [page[i] EXCEPT !.hidden = TRUE, !.savedDisplay = page[i].display,
                             !.display = "none"]
        ELSE page[i]]

RECURSIVE pushHidden(_, _, _)
\* this.hiddenElements after the same forEach, from element i on
pushHidden(hiddenList, target, i) ==
    IF i > Len(page) THEN hiddenList
    ELSE pushHidden(IF hideSelectorMatches(target, page[i]) /\ ~page[i].hidden
                    THEN Append(hiddenList, i) ELSE hiddenList,
                    target, i + 1)

HideTargets == {"sidebar", "video"}

\* hideElements(target), lines 796-879
HideElements ==
    /\ \E target \in HideTargets :
          IF \A i \in PageIds : ~hideSelectorMatches(target, page[i])
          THEN /\ result' = Failure("No elements found on this page")
               /\ UNCHANGED <<page, hiddenElements, activeManipulations>>
          ELSE /\ page' = pageAfterHide(target)
               /\ hiddenElements' = pushHidden(hiddenElements, target, 1)
               /\ activeManipulations' =
                     addManipulation(activeManipulations, "hide_" \o target, "Hidden: " \o target)
               /\ result' = Success
    /\ lastOp' = Op("hideElements", "", 0)
    /\ UNCHANGED <<customStyles, isDarkModeEnabled, textSizeMultiplier, zoom>>
    /\ UNCHANGED otherVars

\* showElements(target), lines 886-918
ShowElements ==
    /\ \E target \in HideTargets :
          activeManipulations' = removeManipulation(activeManipulations, "hide_" \o target)
    /\ page' = [i \in PageIds |->
                  IF page[i].hidden
                  THEN [page[i] EXCEPT !.hidden = FALSE, !.display = page[i].savedDisplay,
                                       !.savedDisplay = ""]
                  ELSE page[i]]
    /\ hiddenElements' = <<>>
    /\ result' = Success
    /\ lastOp' = Op("showElements", "", 0)
    /\ UNCHANGED <<customStyles, isDarkModeEnabled, textSizeMultiplier, zoom>>
    /\ UNCHANGED otherVars

\* enableFocusMode(), lines 1085-1142
EnableFocusMode ==
    /\ page' = [i \in PageIds |->
                  IF isDistraction(page[i]) /\ ~page[i].focusHidden
                  THEN [page[i] EXCEPT !.focusHidden = TRUE,
                                       !.savedDisplay = page[i].display,
                                       !.display = "none"]
                  ELSE page[i]]
    /\ customStyles' = updateCustomStyles(customStyles, "focusMode", "line-height")
    /\ activeManipulations' =
          addManipulation(activeManipulations, "focusMode", "Focus mode enabled")
    /\ result' = Success
    /\ lastOp' = Op("enableFocusMode", "", 0)
    /\ UNCHANGED <<hiddenElements, isDarkModeEnabled, textSizeMultiplier, zoom>>
    /\ UNCHANGED otherVars

\* the forEach over [data-lavio-focus-hidden="true"] of disableFocusMode
\* (lines 1151-1159) and of resetAll (lines 1326-1333)
restoreFocusHidden(p) ==
    [i \in 1..Len(p) |->
        IF p[i].focusHidden
        THEN [p[i] EXCEPT !.focusHidden = FALSE, !.display = p[i].savedDisplay,
                          !.savedDisplay = ""]
        ELSE p[i]]

\* disableFocusMode(), lines 1148-1182
DisableFocusMode ==
    /\ page' = restoreFocusHidden(page)
    /\ customStyles' = updateCustomStyles(customStyles, "focusMode", "")
    /\ activeManipulations' = removeManipulation(activeManipulations, "focusMode")
    /\ result' = Success
    /\ lastOp' = Op("disableFocusMode", "", 0)
    /\ UNCHANGED <<hiddenElements, isDarkModeEnabled, textSizeMultiplier, zoom>>
    /\ UNCHANGED otherVars

\* the zoom levels setZoom is asked for; zoom is document.body.style.zoom,
\* "" when the property is not set
ZoomLevels == {"reset", "150"}

\* the switch of setZoom (lines 1194-1213) for these levels
zoomValue(level) == IF level = "reset" THEN "1" ELSE "1.5"

\* setZoom(level), lines 1190-1232
SetZoom ==
    /\ \E level \in ZoomLevels :
          /\ zoom' = zoomValue(level)
          /\ activeManipulations' =
                addManipulation(activeManipulations, "zoom", "Zoom: " \o zoomValue(level))
    /\ result' = Success
    /\ lastOp' = Op("setZoom", "", 0)
    /\ UNCHANGED <<page, customStyles, hiddenElements, isDarkModeEnabled, textSizeMultiplier>>
    /\ UNCHANGED otherVars

\* undoLast(), lines 1366-1382
UndoLast ==
    /\ IF activeManipulations = <<>>
       THEN /\ result' = Failure("No manipulations to undo")
            /\ UNCHANGED <<customStyles, activeManipulations>>
       ELSE LET last == activeManipulations[Len(activeManipulations)]
            IN  /\ customStyles' = updateCustomStyles(customStyles, last.id, "")
                /\ activeManipulations' = removeManipulation(activeManipulations, last.id)
                /\ result' = Success
    /\ lastOp' = Op("undoLast", "", 0)
    /\ UNCHANGED <<page, hiddenElements, isDarkModeEnabled, textSizeMultiplier, zoom>>
    /\ UNCHANGED otherVars

RECURSIVE restoreHidden(_, _)
\* this.hiddenElements.forEach of resetAll (lines 1315-1323), over the
\* list hiddenList
restoreHidden(p, hiddenList) ==
    IF hiddenList = <<>> THEN p
    ELSE LET i == Head(hiddenList)
         IN  restoreHidden(IF p[i].hidden
                           THEN [p EXCEPT ![i].display = p[i].savedDisplay,
                                          ![i].hidden = FALSE,
                                          ![i].savedDisplay = ""]
                           ELSE p,
                           Tail(hiddenList))

\* resetAll(), lines 1307-1360
ResetAll ==
    /\ customStyles' = <<>>
    /\ page' = restoreFocusHidden(restoreHidden(page, hiddenElements))
    /\ zoom' = ""
    /\ activeManipulations' = <<>>
    /\ hiddenElements' = <<>>
    /\ isDarkModeEnabled' = FALSE
    /\ textSizeMultiplier' = 100
    /\ result' = Success
    /\ lastOp' = Op("resetAll", "", 0)
    /\ UNCHANGED otherVars

\* the state the constructor leaves (lines 397-417)
ManipulatorIdle ==
    /\ customStyles = <<>>
    /\ activeManipulations = <<>>
    /\ hiddenElements = <<>>
    /\ isDarkModeEnabled = FALSE
    /\ textSizeMultiplier = 100
    /\ zoom = ""

\* no PageManipulator has been constructed
NoManipulator ==
    /\ page = <<>>
    /\ customStyles = <<>>
    /\ activeManipulations = <<>>
    /\ hiddenElements = <<>>
    /\ isDarkModeEnabled = FALSE
    /\ textSizeMultiplier = 100
    /\ zoom = ""

ManipulatorInit ==
    /\ page \in ManipulatedPages
    /\ ManipulatorIdle
    /\ dom = <<>>
    /\ detectedElements = <<>>
    /\ lastOp = NoOp
    /\ ExecutorIdle
    /\ ResolverIdle
    /\ WindowIdle

ManipulatorNext ==
    \/ AdjustTextSize
    \/ ToggleDarkMode
    \/ HideElements
    \/ ShowElements
    \/ EnableFocusMode
    \/ DisableFocusMode
    \/ SetZoom
    \/ UndoLast
    \/ ResetAll

\* the page as InitManipulator chose it: the inline display values before
\* the first manipulation
baselineOf(p) ==
    CHOOSE b \in ManipulatedPages :
        /\ Len(b) = Len(p)
        /\ \A i \in 1..Len(p) : b[i].tag = p[i].tag /\ b[i].className = p[i].className

\* C18: after any sequence of PageManipulator operations followed by
\* resetAll the page is at its baseline: the custom stylesheet is empty,
\* activeManipulations is empty, textSizeMultiplier is 1.0, dark mode is
\* off and every element's inline display is the one it had before the
\* first manipulation, also for an element hidden by both hideElements and
\* focus mode.
C18_ResetAllRestoresBaseline ==
    lastOp.name = "resetAll" =>
        /\ customStyles = <<>>
        /\ activeManipulations = <<>>
        /\ textSizeMultiplier = 100
        /\ ~isDarkModeEnabled
        /\ \A i \in PageIds : page[i].display = baselineOf(page)[i].display

\* the manipulation undoLast takes: the last one of the active set
lastManipulation == activeManipulations[Len(activeManipulations)]

\* the manipulation undone by this step is the one named id
Undoes(id) == lastManipulation.id = id

\* C27: after undoLast succeeds the most recently applied manipulation is
\* out of the active set and its page effect is gone: its CSS block, the
\* elements it hid (by hideElements or by focus mode), the zoom level, the
\* dark-mode flag or the text-size multiplier it set; every other active
\* manipulation stays in the set, in effect.
C27_UndoLastRestores ==
    [][(lastOp'.name = "undoLast" /\ result'.success) =>
          /\ activeManipulations' =
                SubSeq(activeManipulations, 1, Len(activeManipulations) - 1)
          /\ customStyles' = updateCustomStyles(customStyles, lastManipulation.id, "")
          /\ isDarkModeEnabled' = (isDarkModeEnabled /\ ~Undoes("darkMode"))
          /\ zoom' = IF Undoes("zoom") THEN "" ELSE zoom
          /\ textSizeMultiplier' = IF Undoes("textSize") THEN 100 ELSE textSizeMultiplier
          /\ \A i \in PageIds :
                /\ page'[i].hidden =
                      (page[i].hidden
                         /\ ~\E t \in HideTargets :
                               Undoes("hide_" \o t) /\ hideSelectorMatches(t, page[i]))
                /\ page'[i].focusHidden = (page[i].focusHidden /\ ~Undoes("focusMode"))
       ]_vars

-----------------------------------------------------------------------------
(* Specifications *)

\* no message that needs the model is being handled
SessionIdle ==
    /\ aiSession = 0
    /\ sessions = <<>>
    /\ handlers = <<>>

\* the classifier alone, on an empty page
Init ==
    /\ ClassifierInit
    /\ MatcherIdle
    /\ SessionIdle
    /\ dom = <<>>
    /\ detectedElements = <<>>
    /\ lastOp = NoOp
    /\ ExecutorIdle
    /\ ResolverIdle
    /\ WindowIdle
    /\ NoManipulator

Spec == Init /\ [][ClassifierNext]_vars

\* the element detector on a page that may drop nodes
InitDetector ==
    /\ ClassifierInit
    /\ MatcherIdle
    /\ SessionIdle
    /\ DetectorInit
    /\ ExecutorIdle
    /\ ResolverIdle
    /\ WindowIdle
    /\ NoManipulator

SpecDetector == InitDetector /\ [][DetectorNext]_vars

\* the action executor on a page that may drop nodes
InitExecutor ==
    /\ ClassifierInit
    /\ MatcherIdle
    /\ SessionIdle
    /\ ExecutorInit
    /\ ResolverIdle
    /\ WindowIdle
    /\ NoManipulator

SpecExecutor == InitExecutor /\ [][ExecutorNext]_vars

\* validateAction asked about the nodes of a page that may drop nodes
InitValidate ==
    /\ ClassifierInit
    /\ MatcherIdle
    /\ SessionIdle
    /\ ValidateInit
    /\ ResolverIdle
    /\ WindowIdle
    /\ NoManipulator

SpecValidate == InitValidate /\ [][ValidateNext]_vars

\* findElementByDescription on the catalog of a page of visible elements
InitResolver ==
    /\ ClassifierInit
    /\ MatcherIdle
    /\ SessionIdle
    /\ ResolverInit
    /\ ExecutorIdle
    /\ WindowIdle
    /\ NoManipulator

SpecResolver == InitResolver /\ [][ResolverNext]_vars

\* executeScroll and executeNavigate on a scrollable page
InitNavigate ==
    /\ ClassifierInit
    /\ MatcherIdle
    /\ SessionIdle
    /\ NavigateInit
    /\ NoManipulator

SpecNavigate == InitNavigate /\ [][NavigateNext]_vars

\* the PageManipulator on a page with distracting elements
InitManipulator ==
    /\ ClassifierInit
    /\ MatcherIdle
    /\ SessionIdle
    /\ ManipulatorInit

SpecManipulator == InitManipulator /\ [][ManipulatorNext]_vars

\* findBestElementMatch asked about catalogs of several sizes
InitMatcher ==
    /\ ClassifierInit
    /\ MatcherIdle
    /\ SessionIdle
    /\ dom = <<>>
    /\ detectedElements = <<>>
    /\ lastOp = NoOp
    /\ ExecutorIdle
    /\ ResolverIdle
    /\ WindowIdle
    /\ NoManipulator

SpecMatcher == InitMatcher /\ [][MatcherNext]_vars

\* the action executor handed attached elements, on a page that may drop nodes
InitStaleness ==
    /\ ClassifierInit
    /\ MatcherIdle
    /\ SessionIdle
    /\ ExecutorInit
    /\ ResolverIdle
    /\ WindowIdle
    /\ NoManipulator

SpecStaleness == InitStaleness /\ [][StalenessNext]_vars

\* handleMessage calls sharing the one AI session
InitSession ==
    /\ ClassifierInit
    /\ MatcherIdle
    /\ SessionInit
    /\ dom = <<>>
    /\ detectedElements = <<>>
    /\ lastOp = NoOp
    /\ ExecutorIdle
    /\ ResolverIdle
    /\ WindowIdle
    /\ NoManipulator

SpecSession == InitSession /\ [][SessionNext]_vars

====
